---- MODULE Spec2Model ----
(***************************************************************************)
(* The L96 reduced-model ("GCM") integration drivers of the notebooks:     *)
(*   GCM(X0, F, dt, nt, param)             gcm-analogue.ipynb              *)
(*   GCM_without_parameterization, GCM_network                             *)
(*                                         L96_online_implement_NN.ipynb   *)
(* Specifications:                                                         *)
(*   Spec          one run at a time of any of the three drivers            *)
(*   SpecTwoScale  the two-time-scale model W = L96(K, J), W.run, U_sample  *)
(*   SpecRepro     the seeded cell and GCM runs from its X_init             *)
(*   SpecPair      two GCM_network runs on one object, interleaved          *)
(* Numbers are integers: every input is an integer and every time step is  *)
(* chosen so that the floating-point arithmetic of the code is exact on it; *)
(* the weights and losses of the training notebook are held in thousandths  *)
(* and millionths, rounded to the nearest.                                  *)
(* Arrays are 1-based sequences; the code's 0-based index i is i+1 here.    *)
(***************************************************************************)
EXTENDS Integers, Sequences, FiniteSets, TLC

VARIABLES
    gcm,       \* the constructed driver object (self), or NoObject
    driver,    \* which run entry point is executing
    X0,        \* the caller's initial-condition array
    F,         \* forcing of the run (argument of GCM, self.F of the classes)
    dt,        \* time increment argument
    nt,        \* number of steps argument
    param,     \* param argument (polynomial coefficients, highest power first)
    pc,        \* position of the run: idle, loop, break, returned, raised
    n,         \* loop index of the next iteration (the index at a break)
    X,         \* the local state vector
    hist,      \* the local history array, rows of cells
    time,      \* the local time array
    evals,     \* number of tendency (rhs) evaluations started in this run
    err,       \* the exception that left the run, or NoError
    ret,       \* the returned (hist, time) pair, or NoReturn
    param_default, \* the list object of the default argument param=[0]
    defaulted, \* the running call omitted param, so param is param_default
    other,     \* a second run on the same driver object, interleaved with the first
    W,         \* the two-time-scale L96 object, or NoObject
    truth,     \* what W.run returned, or NoReturn
    U_sample,  \* the coupling samples computed from the fast record
    np_random, \* the state of the global generator of np.random
    X_init,    \* the initial condition drawn in the seeded cell
    memo,      \* an earlier finished run: its arguments and what it returned
    ode,       \* the scheme order check: a test equation being integrated
    data,      \* the training notebook's records, their split and the loaders
    fit        \* the fit_model call: network, optimizer, position, losses

\* the variables of one run of a reduced-model driver
runVars == <<gcm, driver, X0, F, dt, nt, param, pc, n, X, hist, time, evals, err,
             ret, param_default, defaulted>>

\* the variables of the two-time-scale model and its records
twoScaleVars == <<W, truth, U_sample>>

\* the variables of the seeded cell
seedVars == <<np_random, X_init, memo>>

\* the variable of the scheme order check
orderVars == <<ode>>

\* the variables of the training notebook
learnVars == <<data, fit>>

vars == <<runVars, other, twoScaleVars, seedVars, orderVars, learnVars>>

----------------------------------------------------------------------------
(* Bounds and input sets *)

MaxNt == 3

Nts == 0..MaxNt

\* initial conditions: K = 0, 1, 3, 4, 5
X0s == { <<>>, <<40>>, <<1, 0, 2>>, <<0, 0, 0, 0>>, <<1, 0, 0, 0>>, <<3, 1, 0, 2>>,
         <<1, 0, 2, 0, 0>> }

Fs == {0, 8, 100, 1000}

Dts == {-1, 0, 1, 3}

Params == { <<0>>, <<1, 0>>, <<1, 1>>, <<-1, -1>>, <<1, 0, 0>> }

\* forcings given to the class drivers
ClassFs == {0, 1}

Schemes == {"EulerFwd", "RK4"}

\* closures: a linear layer; in_features = 1 is applied to each variable,
\* any other in_features takes the whole slow vector as one sample;
\* a faulty closure may raise on any evaluation
NoNetwork == [in_features |-> 0, w |-> 0, v |-> 0, b |-> 0, faulty |-> FALSE]

Networks ==
    { [in_features |-> 1, w |-> 0, v |-> 0, b |-> 0, faulty |-> FALSE],
      [in_features |-> 1, w |-> 1, v |-> 0, b |-> 1, faulty |-> FALSE],
      [in_features |-> 3, w |-> 1, v |-> 1, b |-> 0, faulty |-> FALSE],
      [in_features |-> 1, w |-> 0, v |-> 0, b |-> 1, faulty |-> TRUE] }

\* the advection term of the tendency vanishes along the whole run
\* (K <= 1, K = 3, or a uniform state), so the tendency is affine in X
Affine(x0) ==
    \/ Len(x0) <= 1
    \/ Len(x0) = 3
    \/ \A k \in 1..Len(x0) : x0[k] = x0[1]

\* time increments given to the class drivers: RK4 divides by 2 and by 6,
\* and a run of quadratic growth is kept within 32-bit integers
ClassDts(scheme, x0) ==
    IF scheme = "RK4"
    THEN (IF Affine(x0) THEN {0, 6} ELSE {0})
    ELSE (IF Affine(x0) THEN {-1, 0, 1, 6} ELSE {-1, 0, 1})

\* initial conditions given to the class drivers
ClassX0s == X0s \ { <<3, 1, 0, 2>> }

----------------------------------------------------------------------------
(* Values *)

NoObject == [cls |-> "none"]
NoError == "none"
NoReturn == <<>>

\* a cell of hist: a number, or the NaN the array is created with
NaN == [nan |-> TRUE, val |-> 0]
Num(v) == [nan |-> FALSE, val |-> v]

Abs(v) == IF v < 0 THEN -v ELSE v

\* the array with the elements of V, computed once
Array(V) == V \o <<>>

\* np.abs(X).max() for a non-empty X
RECURSIVE MaxAbsFrom(_, _)
MaxAbsFrom(V, i) ==
    IF i = Len(V) THEN Abs(V[i])
    ELSE LET r == MaxAbsFrom(V, i + 1)
         IN  IF Abs(V[i]) > r THEN Abs(V[i]) ELSE r

MaxAbs(V) == MaxAbsFrom(V, 1)

\* a row of hist holding the vector V
Row(V) == Array([k \in 1..Len(V) |-> Num(V[k])])

\* a row still holds the NaN it was created with
RowUnset(r) == \E k \in 1..Len(r) : r[k].nan

\* the vector a set row holds
Vals(r) == Array([k \in 1..Len(r) |-> r[k].val])

\* np.zeros((rows, K)) * np.nan
NanArray(rows, K) == Array([i \in 1..rows |-> Array([k \in 1..K |-> NaN])])

\* dt * np.arange(m)
Arange(d, m) == Array([i \in 1..m |-> d * (i - 1)])

\* np.random.randn(m) from the generator state g: the values are fixed by the
\* seed and by how many values were drawn since it was set; whole numbers in
\* -4..4 stand for the normal deviates, the streams of different seeds and
\* the stream at different positions differ
Randn(g, m) ==
    Array([i \in 1..m |->
              LET idx == g.draws + i
                  h == (g.seed * 2 + idx * 5) % 1009
              IN  (((h * h + 9 * idx + g.seed) % 1009) % 9) - 4])

\* the generator state after m values were drawn
Drawn(g, m) == [g EXCEPT !.draws = g.draws + m]

----------------------------------------------------------------------------
(* Tendency and closures *)

\* np.roll(V, s)[k] for 1-based k
Roll(V, s, k) == V[((k - 1 - s) % Len(V)) + 1]

\* L96_eq1_xdot(X, F): uncoupled slow tendency
L96_eq1_xdot(V, f) ==
    Array([k \in 1..Len(V) |->
              Roll(V, 1, k) * (Roll(V, -1, k) - Roll(V, 2, k)) - V[k] + f])

\* np.polyval(p, x) for a scalar x: Horner, highest power first
RECURSIVE PolyvalFrom(_, _, _, _)
PolyvalFrom(p, x, i, y) ==
    IF i > Len(p) THEN y ELSE PolyvalFrom(p, x, i + 1, y * x + p[i])

polyval_monic(p, V) == Array([k \in 1..Len(V) |-> PolyvalFrom(p, V[k], 1, 1)])

\* np.polyval(p, V), elementwise
polyval(p, V) == Array([k \in 1..Len(V) |-> PolyvalFrom(p, V[k], 1, 0)])

GCM_tendency_neighbour_closure(V, f, p) ==
    LET xdot == L96_eq1_xdot(V, f)
        P == polyval(p, V)
    IN  Array([k \in 1..Len(V) |-> xdot[k] - P[(k % Len(V)) + 1]])

\* the tendency GCM integrates: L96_eq1_xdot(X, F) - np.polyval(param, X)
GCM_tendency(V, f, p) ==
    LET xdot == L96_eq1_xdot(V, f)
        P == polyval(p, V)
    IN  Array([k \in 1..Len(V) |-> xdot[k] - P[k]])

----------------------------------------------------------------------------
(* GCM(X0, F, dt, nt, param) *)

\* GCM with an initial state perturbed from the global generator
GCM_entry_perturbed(x0, d, m) ==
    LET noise == Randn(np_random, Len(x0))
    IN  [time |-> Arange(d, m),
         hist |-> NanArray(m, Len(x0)),
         X |-> Array([k \in 1..Len(x0) |-> x0[k] + noise[k]])]

\* the first statement of GCM: time, hist and X
GCM_entry(x0, d, m) ==
    [time |-> Arange(d, m),
     hist |-> NanArray(m, Len(x0)),
     X |-> x0]

\* X + dt * (L96_eq1_xdot(X, F) - np.polyval(param, X))
GCM_update_adding_closure(V, f, d, p) ==
    LET xdot == L96_eq1_xdot(V, f)
        P == polyval(p, V)
    IN  Array([k \in 1..Len(V) |-> V[k] + d * (xdot[k] + P[k])])

GCM_update(V, f, d, p) ==
    LET tend == GCM_tendency(V, f, p)
    IN  Array([k \in 1..Len(V) |-> V[k] + d * tend[k]])

\* one pass of the loop body from local state V at loop index i
GCM_body_zero_fill(V, f, d, p, i, h, t) ==
    LET Xn == GCM_update(V, f, d, p)
    IN  IF Len(V) = 0
        THEN [pc |-> "raised", err |-> "ValueError", X |-> Xn, n |-> i,
              hist |-> h, time |-> t]
        ELSE IF MaxAbs(Xn) > 1000
        THEN [pc |-> "break", err |-> NoError, X |-> Xn, n |-> i,
              hist |-> [j \in 1..Len(h) |->
                           IF j > i THEN [k \in 1..Len(V) |-> Num(0)] ELSE h[j]],
              time |-> t]
        ELSE [pc |-> "loop", err |-> NoError, X |-> Xn, n |-> i + 1,
              hist |-> [h EXCEPT ![i + 1] = Row(Xn)],
              time |-> [t EXCEPT ![i + 1] = d * (i + 1)]]

GCM_body_write_before_guard(V, f, d, p, i, h, t) ==
    LET Xn == GCM_update(V, f, d, p)
    IN  IF Len(V) = 0
        THEN [pc |-> "raised", err |-> "ValueError", X |-> Xn, n |-> i,
              hist |-> h, time |-> t]
        ELSE IF MaxAbs(Xn) > 1000
        THEN [pc |-> "break", err |-> NoError, X |-> Xn, n |-> i,
              hist |-> [h EXCEPT ![i + 1] = Row(Xn)],
              time |-> [t EXCEPT ![i + 1] = d * (i + 1)]]
        ELSE [pc |-> "loop", err |-> NoError, X |-> Xn, n |-> i + 1,
              hist |-> [h EXCEPT ![i + 1] = Row(Xn)],
              time |-> [t EXCEPT ![i + 1] = d * (i + 1)]]

GCM_body_guard_inclusive(V, f, d, p, i, h, t) ==
    LET Xn == GCM_update(V, f, d, p)
    IN  IF Len(V) = 0
        THEN [pc |-> "raised", err |-> "ValueError", X |-> Xn, n |-> i,
              hist |-> h, time |-> t]
        ELSE IF MaxAbs(Xn) >= 1000
        THEN [pc |-> "break", err |-> NoError, X |-> Xn, n |-> i,
              hist |-> h, time |-> t]
        ELSE [pc |-> "loop", err |-> NoError, X |-> Xn, n |-> i + 1,
              hist |-> [h EXCEPT ![i + 1] = Row(Xn)],
              time |-> [t EXCEPT ![i + 1] = d * (i + 1)]]

GCM_body_continue_on_guard(V, f, d, p, i, h, t) ==
    LET Xn == GCM_update(V, f, d, p)
    IN  IF Len(V) = 0
        THEN [pc |-> "raised", err |-> "ValueError", X |-> Xn, n |-> i,
              hist |-> h, time |-> t]
        ELSE IF MaxAbs(Xn) > 1000
        THEN [pc |-> "loop", err |-> NoError, X |-> Xn, n |-> i + 1,
              hist |-> h, time |-> t]
        ELSE [pc |-> "loop", err |-> NoError, X |-> Xn, n |-> i + 1,
              hist |-> [h EXCEPT ![i + 1] = Row(Xn)],
              time |-> [t EXCEPT ![i + 1] = d * (i + 1)]]

\* one pass of the loop body of GCM from local state V at loop index i
GCM_body(V, f, d, p, i, h, t) ==
    LET Xn == GCM_update(V, f, d, p)
    IN  IF Len(V) = 0
        THEN [pc |-> "raised", err |-> "ValueError", X |-> Xn, n |-> i,
              hist |-> h, time |-> t]
        ELSE IF MaxAbs(Xn) > 1000
        THEN [pc |-> "break", err |-> NoError, X |-> Xn, n |-> i,
              hist |-> h, time |-> t]
        ELSE [pc |-> "loop", err |-> NoError, X |-> Xn, n |-> i + 1,
              hist |-> [h EXCEPT ![i + 1] = Row(Xn)],
              time |-> [t EXCEPT ![i + 1] = d * (i + 1)]]

\* the loop of GCM from index i, run to its end
RECURSIVE GCM_loop(_, _, _, _, _, _, _, _)
GCM_loop(V, f, d, p, i, m, h, t) ==
    IF i = m THEN [hist |-> h, time |-> t]
    ELSE LET s == GCM_body(V, f, d, p, i, h, t)
         IN  IF s.pc = "loop"
             THEN GCM_loop(s.X, f, d, p, s.n, m, s.hist, s.time)
             ELSE [hist |-> s.hist, time |-> s.time]

\* GCM(X0, F, dt, nt, param) for a non-empty X0: the returned hist and time
GCM(x0, f, d, m, p) ==
    LET e == GCM_entry(x0, d, m)
    IN  GCM_loop(e.X, f, d, p, 0, m, e.hist, e.time)

X0_after_step_in_place(x0, Xn) == Xn

\* the caller's array after an iteration: X starts as X0.copy() and every
\* iteration binds X to a new array, so the caller's array is not written
X0_after_step(x0, Xn) == x0

\* the list bound to param after an iteration: it is only read
Param_after_step(p) == p

Self_after_step_storing_state(self) == [self EXCEPT !.F = self.F + 1]

Self_after_step_updating_network(self) ==
    [self EXCEPT !.network.w = self.network.w + 1]

\* the driver object after an iteration: no attribute of self is assigned
Self_after_step(self) == self

\* the param arguments of a call: one of ps, or omitted (the default list)
ParamArgs(ps) ==
    { [omitted |-> FALSE, param |-> p] : p \in ps }
        \cup { [omitted |-> TRUE, param |-> param_default] }

\* a call GCM(x0, f, d, m, param=p) with arguments drawn from the given sets
GCM_CallWith(x0s, fs, ds, ms, ps) ==
    /\ pc = "idle"
    /\ \E x0 \in x0s, f \in fs, d \in ds, m \in ms, a \in ParamArgs(ps) :
          LET e == GCM_entry(x0, d, m)
          IN  /\ driver' = "GCM"
              /\ X0' = x0 /\ F' = f /\ dt' = d /\ nt' = m
              /\ param' = a.param /\ defaulted' = a.omitted
              /\ time' = e.time /\ hist' = e.hist /\ X' = e.X
    /\ pc' = "loop" /\ n' = 0 /\ evals' = 0 /\ err' = NoError /\ ret' = NoReturn
    /\ UNCHANGED <<gcm, param_default>>

GCM_Call ==
    /\ GCM_CallWith(X0s, Fs, Dts, Nts, Params)
    /\ UNCHANGED <<other, twoScaleVars, seedVars, orderVars, learnVars>>

\* one iteration of the running GCM call
GCM_Iterate ==
    /\ pc = "loop" /\ driver = "GCM" /\ n < nt
    /\ LET s == GCM_body(X, F, dt, param, n, hist, time)
       IN  /\ pc' = s.pc /\ err' = s.err /\ X' = s.X /\ n' = s.n
           /\ hist' = s.hist /\ time' = s.time
    /\ evals' = evals + 1
    /\ X0' = X0_after_step(X0, X')
    /\ param' = Param_after_step(param)
    /\ param_default' = IF defaulted THEN param' ELSE param_default
    /\ UNCHANGED <<gcm, driver, F, dt, nt, ret, defaulted>>

GCM_Step ==
    /\ GCM_Iterate
    /\ UNCHANGED <<other, twoScaleVars, seedVars, orderVars, learnVars>>

GCM_Finish ==
    /\ driver = "GCM"
    /\ \/ pc = "loop" /\ n = nt
       \/ pc = "break"
    /\ pc' = "returned"
    /\ ret' = <<hist, time>>
    /\ UNCHANGED <<gcm, driver, X0, F, dt, nt, param, n, X, hist, time, evals, err,
                   param_default, defaulted>>

GCM_Return ==
    /\ GCM_Finish
    /\ UNCHANGED <<other, twoScaleVars, seedVars, orderVars, learnVars>>

----------------------------------------------------------------------------
(* Step schemes of L96_model *)

\* EulerFwd(fn, dt, X): X + dt * fn(X), given Xdot1 = fn(X)
EulerFwd(d, V, Xdot1) == Array([k \in 1..Len(V) |-> V[k] + d * Xdot1[k]])

\* stage points of RK4
RK4_half(d, V, Xdot) == Array([k \in 1..Len(V) |-> V[k] + (d * Xdot[k]) \div 2])
RK4_full(d, V, Xdot) == Array([k \in 1..Len(V) |-> V[k] + d * Xdot[k]])

RK4_combine_unbracketed(d, V, Xdot1, Xdot2, Xdot3, Xdot4) ==
    Array([k \in 1..Len(V) |->
        V[k] + (d * ((Xdot1[k] + Xdot4[k]) + 2 * Xdot2[k] + Xdot3[k])) \div 6])

\* X + (dt / 6) * ((Xdot1 + Xdot4) + 2 * (Xdot2 + Xdot3))
RK4_combine(d, V, Xdot1, Xdot2, Xdot3, Xdot4) ==
    Array([k \in 1..Len(V) |->
        V[k] + (d * ((Xdot1[k] + Xdot4[k]) + 2 * (Xdot2[k] + Xdot3[k]))) \div 6])

\* number of tendency evaluations of one step
Stages(scheme) == IF scheme = "RK4" THEN 4 ELSE 1

----------------------------------------------------------------------------
(* GCM_without_parameterization and GCM_network *)

\* GCM_without_parameterization.rhs(X, _)
GCM_without_parameterization_rhs(self, V) == L96_eq1_xdot(V, self.F)

Network_forward_neighbour_feature(net, V) ==
    IF net.in_features = 1
    THEN Array([k \in 1..Len(V) |-> net.w * V[(k % Len(V)) + 1] + net.b])
    ELSE Array([k \in 1..Len(V) |->
                   net.w * V[k] + net.v * V[(k % Len(V)) + 1] + net.b])

\* self.network(X_torch), squeezed: one sample per variable when the
\* network declares one input feature, the whole vector as one sample otherwise
Network_forward(net, V) ==
    IF net.in_features = 1
    THEN Array([k \in 1..Len(V) |-> net.w * V[k] + net.b])
    ELSE Array([k \in 1..Len(V) |->
                   net.w * V[k] + net.v * V[(k % Len(V)) + 1] + net.b])

\* the whole-vector sample does not fit the network's first layer
Network_shape_error(net, V) ==
    net.in_features # 1 /\ net.in_features # Len(V)

\* the exception the closure raises on V
Network_error(net, V) ==
    IF Network_shape_error(net, V) THEN "RuntimeError" ELSE "ClosureError"

GCM_network_rhs_subtracting(self, V) ==
    LET xdot == L96_eq1_xdot(V, self.F)
        N == Network_forward(self.network, V)
    IN  Array([k \in 1..Len(V) |-> xdot[k] - N[k]])

GCM_network_rhs_closure_from_param(self, V) ==
    LET xdot == L96_eq1_xdot(V, self.F)
        N == Network_forward(self.network, V)
    IN  Array([k \in 1..Len(V) |-> xdot[k] + N[k] - param[Len(param)]])

\* GCM_network.rhs(X, _)
GCM_network_rhs(self, V) ==
    LET xdot == L96_eq1_xdot(V, self.F)
        N == Network_forward(self.network, V)
    IN  Array([k \in 1..Len(V) |-> xdot[k] + N[k]])

\* self.rhs
rhs(self, V) ==
    IF self.cls = "GCM_network"
    THEN GCM_network_rhs(self, V)
    ELSE GCM_without_parameterization_rhs(self, V)

\* self.time_stepping(self.rhs, dt, X, param)
time_stepping(self, d, V) ==
    IF self.time_stepping = "RK4"
    THEN LET Xdot1 == rhs(self, V)
             Xdot2 == rhs(self, RK4_half(d, V, Xdot1))
             Xdot3 == rhs(self, RK4_half(d, V, Xdot2))
             Xdot4 == rhs(self, RK4_full(d, V, Xdot3))
         IN  RK4_combine(d, V, Xdot1, Xdot2, Xdot3, Xdot4)
    ELSE EulerFwd(d, V, rhs(self, V))

\* the evaluations of one step at which the closure can raise; 0 is "none"
FailPoints(self, V) ==
    IF self.cls # "GCM_network" THEN {0}
    ELSE IF Network_shape_error(self.network, V) THEN {1}
    ELSE IF self.network.faulty THEN 0..Stages(self.time_stepping)
    ELSE {0}

\* one pass of the loop body of GCM_without_parameterization.__call__
GCM_without_parameterization_body_row_n(self, V, d, i, h, t) ==
    LET Xn == time_stepping(self, d, V)
    IN  [pc |-> "loop", err |-> NoError, X |-> Xn, n |-> i + 1,
         hist |-> [h EXCEPT ![i + 1] = Row(Xn)],
         time |-> [t EXCEPT ![i + 1] = d * (i + 1)],
         evals |-> Stages(self.time_stepping)]

GCM_without_parameterization_body_stepping_twice(self, V, d, i, h, t) ==
    LET Xn == time_stepping(self, d, V)
    IN  [pc |-> "loop", err |-> NoError, X |-> Xn, n |-> i + 1,
         hist |-> [h EXCEPT ![i + 2] = Row(Xn)],
         time |-> [t EXCEPT ![i + 2] = d * (i + 1)],
         evals |-> 2 * Stages(self.time_stepping)]

GCM_without_parameterization_body(self, V, d, i, h, t) ==
    LET Xn == time_stepping(self, d, V)
    IN  [pc |-> "loop", err |-> NoError, X |-> Xn, n |-> i + 1,
         hist |-> [h EXCEPT ![i + 2] = Row(Xn)],
         time |-> [t EXCEPT ![i + 2] = d * (i + 1)],
         evals |-> Stages(self.time_stepping)]

\* one pass of the loop body of GCM_network.__call__; the closure raises at
\* evaluation failAt of the step (0: it does not raise)
GCM_network_body_retrying(self, V, d, i, h, t, failAt) ==
    LET Xn == time_stepping(self, d, V)
    IN  [pc |-> "loop", err |-> NoError, X |-> Xn, n |-> i + 1,
         hist |-> [h EXCEPT ![i + 2] = Row(Xn)],
         time |-> [t EXCEPT ![i + 2] = d * (i + 1)],
         evals |-> failAt + Stages(self.time_stepping)]

GCM_network_body_index_dependent(self, V, d, i, h, t, failAt) ==
    IF failAt > 0
    THEN [pc |-> "raised", err |-> Network_error(self.network, V), X |-> V, n |-> i,
          hist |-> h, time |-> t, evals |-> failAt]
    ELSE LET S == time_stepping(self, d, V)
             Xn == Array([k \in 1..Len(V) |-> S[k] + i])
         IN  [pc |-> "loop", err |-> NoError, X |-> Xn, n |-> i + 1,
              hist |-> [h EXCEPT ![i + 2] = Row(Xn)],
              time |-> [t EXCEPT ![i + 2] = d * (i + 1)],
              evals |-> Stages(self.time_stepping)]

GCM_network_body(self, V, d, i, h, t, failAt) ==
    IF failAt > 0
    THEN [pc |-> "raised", err |-> Network_error(self.network, V), X |-> V, n |-> i,
          hist |-> h, time |-> t, evals |-> failAt]
    ELSE LET Xn == time_stepping(self, d, V)
         IN  [pc |-> "loop", err |-> NoError, X |-> Xn, n |-> i + 1,
              hist |-> [h EXCEPT ![i + 2] = Row(Xn)],
              time |-> [t EXCEPT ![i + 2] = d * (i + 1)],
              evals |-> Stages(self.time_stepping)]

\* the first statements of __call__: time, hist, X and hist[0] = X
Class_entry(x0, d, m) ==
    [time |-> Arange(d, m + 1),
     hist |-> [NanArray(m + 1, Len(x0)) EXCEPT ![1] = Row(x0)],
     X |-> x0]

GCM_without_parameterization_init ==
    /\ pc = "idle"
    /\ \E f \in ClassFs, ts \in Schemes :
          gcm' = [cls |-> "GCM_without_parameterization", F |-> f,
                  network |-> NoNetwork, time_stepping |-> ts]
    /\ UNCHANGED <<driver, X0, F, dt, nt, param, pc, n, X, hist, time, evals, err, ret,
                   param_default, defaulted>>
    /\ UNCHANGED <<other, twoScaleVars, seedVars, orderVars, learnVars>>

GCM_network_init ==
    /\ pc = "idle"
    /\ \E f \in ClassFs, net \in Networks, ts \in Schemes :
          gcm' = [cls |-> "GCM_network", F |-> f,
                  network |-> net, time_stepping |-> ts]
    /\ UNCHANGED <<driver, X0, F, dt, nt, param, pc, n, X, hist, time, evals, err, ret,
                   param_default, defaulted>>
    /\ UNCHANGED <<other, twoScaleVars, seedVars, orderVars, learnVars>>

\* a call gcm(x0, d, m, param) with arguments drawn from the given sets
Class_CallWith(x0s, ms, ps) ==
    /\ pc = "idle" /\ gcm # NoObject
    /\ \E x0 \in x0s, m \in ms, a \in ParamArgs(ps) :
       \E d \in ClassDts(gcm.time_stepping, x0) :
          LET e == Class_entry(x0, d, m)
          IN  /\ driver' = gcm.cls
              /\ X0' = x0 /\ F' = gcm.F /\ dt' = d /\ nt' = m
              /\ param' = a.param /\ defaulted' = a.omitted
              /\ time' = e.time /\ hist' = e.hist /\ X' = e.X
    /\ pc' = "loop" /\ n' = 0 /\ evals' = 0 /\ err' = NoError /\ ret' = NoReturn
    /\ UNCHANGED <<gcm, param_default>>

Class_Call ==
    /\ Class_CallWith(ClassX0s, Nts, Params)
    /\ UNCHANGED <<other, twoScaleVars, seedVars, orderVars, learnVars>>

GCM_without_parameterization_Step ==
    /\ pc = "loop" /\ driver = "GCM_without_parameterization" /\ n < nt
    /\ LET s == GCM_without_parameterization_body(gcm, X, dt, n, hist, time)
       IN  /\ pc' = s.pc /\ err' = s.err /\ X' = s.X /\ n' = s.n
           /\ hist' = s.hist /\ time' = s.time /\ evals' = evals + s.evals
    /\ X0' = X0_after_step(X0, X')
    /\ gcm' = Self_after_step(gcm)
    /\ param' = Param_after_step(param)
    /\ param_default' = IF defaulted THEN param' ELSE param_default
    /\ UNCHANGED <<driver, F, dt, nt, ret, defaulted>>
    /\ UNCHANGED <<other, twoScaleVars, seedVars, orderVars, learnVars>>

\* one iteration of the running GCM_network call
GCM_network_Iterate ==
    /\ pc = "loop" /\ driver = "GCM_network" /\ n < nt
    /\ \E failAt \in FailPoints(gcm, X) :
          LET s == GCM_network_body(gcm, X, dt, n, hist, time, failAt)
          IN  /\ pc' = s.pc /\ err' = s.err /\ X' = s.X /\ n' = s.n
              /\ hist' = s.hist /\ time' = s.time /\ evals' = evals + s.evals
    /\ X0' = X0_after_step(X0, X')
    /\ gcm' = Self_after_step(gcm)
    /\ param' = Param_after_step(param)
    /\ param_default' = IF defaulted THEN param' ELSE param_default
    /\ UNCHANGED <<driver, F, dt, nt, ret, defaulted>>

GCM_network_Step ==
    /\ GCM_network_Iterate
    /\ UNCHANGED <<other, twoScaleVars, seedVars, orderVars, learnVars>>

Class_Finish ==
    /\ driver \in {"GCM_without_parameterization", "GCM_network"}
    /\ pc = "loop" /\ n = nt
    /\ pc' = "returned"
    /\ ret' = <<hist, time>>
    /\ UNCHANGED <<gcm, driver, X0, F, dt, nt, param, n, X, hist, time, evals, err,
                   param_default, defaulted>>

Class_Return ==
    /\ Class_Finish
    /\ UNCHANGED <<other, twoScaleVars, seedVars, orderVars, learnVars>>

----------------------------------------------------------------------------
\* the caller drops the result of a finished run
Drop ==
    /\ pc \in {"returned", "raised"}
    /\ pc' = "idle"
    /\ driver' = "none" /\ X0' = <<>> /\ F' = 0 /\ dt' = 0 /\ nt' = 0
    /\ param' = <<0>> /\ n' = 0 /\ X' = <<>> /\ hist' = <<>> /\ time' = <<>>
    /\ evals' = 0 /\ err' = NoError /\ ret' = NoReturn /\ defaulted' = FALSE
    /\ UNCHANGED <<gcm, param_default>>

Discard ==
    /\ Drop
    /\ UNCHANGED <<other, twoScaleVars, seedVars, orderVars, learnVars>>

\* no run is in progress
RunIdle ==
    /\ driver = "none" /\ X0 = <<>> /\ F = 0 /\ dt = 0 /\ nt = 0
    /\ param = <<0>> /\ pc = "idle" /\ n = 0 /\ X = <<>> /\ hist = <<>>
    /\ time = <<>> /\ evals = 0 /\ err = NoError /\ ret = NoReturn
    /\ param_default = <<0>> /\ defaulted = FALSE

\* no second run, no two-time-scale model, no seeded cell, no order check,
\* no training notebook
NoOther == [pc |-> "idle"]
NoSeed == -1

RestIdle ==
    /\ other = NoOther
    /\ W = NoObject /\ truth = NoReturn /\ U_sample = <<>>
    /\ np_random = [seed |-> NoSeed, draws |-> 0] /\ X_init = <<>> /\ memo = NoReturn
    /\ ode = NoObject /\ data = NoObject /\ fit = NoObject

Init ==
    /\ gcm = NoObject
    /\ RunIdle
    /\ RestIdle

Next ==
    \/ GCM_Call
    \/ GCM_Step
    \/ GCM_Return
    \/ GCM_without_parameterization_init
    \/ GCM_network_init
    \/ Class_Call
    \/ GCM_without_parameterization_Step
    \/ GCM_network_Step
    \/ Class_Return
    \/ Discard

Spec == Init /\ [][Next]_vars

\* the interpreter goes on with a started run: the next iteration, or the
\* return once the loop is left
Advance ==
    \/ GCM_Step
    \/ GCM_Return
    \/ GCM_without_parameterization_Step
    \/ GCM_network_Step
    \/ Class_Return

\* the runs whose termination is checked: full runs, runs stopped by the
\* guard at every step, and closures that raise
LiveX0s == { <<40>>, <<1, 0, 2>> }
LiveFs == {8, 1000}
LiveParams == { <<0>>, <<1, 1>> }

\* GCM is called in the notebook that defines it, which builds no class driver
Live_GCM_Call ==
    /\ gcm = NoObject
    /\ GCM_CallWith(LiveX0s, LiveFs, Dts, Nts, LiveParams)
    /\ UNCHANGED <<other, twoScaleVars, seedVars, orderVars, learnVars>>

\* initial conditions given to a class driver in these runs
LiveClassX0s(scheme) == IF scheme = "RK4" THEN { <<40>> } ELSE LiveX0s

Live_Class_Call ==
    /\ gcm # NoObject
    /\ Class_CallWith(LiveClassX0s(gcm.time_stepping), Nts, { <<0>> })
    /\ UNCHANGED <<other, twoScaleVars, seedVars, orderVars, learnVars>>

NextLive ==
    \/ Live_GCM_Call
    \/ GCM_Step
    \/ GCM_Return
    \/ GCM_without_parameterization_init
    \/ GCM_network_init
    \/ Live_Class_Call
    \/ GCM_without_parameterization_Step
    \/ GCM_network_Step
    \/ Class_Return
    \/ Discard

SpecLive == Init /\ [][NextLive]_vars /\ WF_vars(Advance)

----------------------------------------------------------------------------
(* The two-time-scale model L96 of L96_model and the cells that use it *)

\* (h, c, b) with h*c/b a whole number
L96Coefficients ==
    { [h |-> 1, c |-> 1, b |-> 1], [h |-> 1, c |-> 2, b |-> 2],
      [h |-> 2, c |-> 1, b |-> 1] }

\* (K, J): K slow variables, J fast variables for each of them
L96Shapes ==
    { [K |-> 2, J |-> 0], [K |-> 2, J |-> 3], [K |-> 3, J |-> 1] }

L96Fs == {0, 8}

\* the two readings of the cyclic index of the fast variables: the index j
\* wraps inside its group (period J), or along the whole fast vector
\* (period K*J, Y[J, k] = Y[0, k+1])
FastPeriods == {"group", "ring"}

\* initial slow and fast states
SlowPattern(a, K) == Array([k \in 1..K |-> (a * k) % 4])
FastPattern(a, m) == Array([i \in 1..m |-> ((a * i) % 3) - 1])
Patterns == 1..2

\* the advection terms of the model do not vanish identically
Advective(w) ==
    \/ w.K = 2
    \/ w.J = 2
    \/ w.J > 3
    \/ w.J = 3 /\ w.period = "ring" /\ w.K > 1

\* sampling intervals si of W.run(si, T) on which the arithmetic of the
\* scheme stays whole and in range: 6 for RK4 on a model whose advection
\* terms vanish, 1 for forward Euler
TruthDts(w, scheme) ==
    IF scheme = "RK4" THEN (IF Advective(w) THEN {} ELSE {6}) ELSE {1}

\* durations T of W.run(si, T): whole multiples of si and values between them
TruthTs(si) == { si * m + e : m \in Nts, e \in {0, si - 1} }

\* int(T / si) for T >= 0 and si > 0
IntQuotient(T, si) == T \div si

\* runs made in one session
MaxRuns == 2

\* V[lo] + ... + V[hi]
RECURSIVE SumRange(_, _, _)
SumRange(V, lo, hi) == IF lo > hi THEN 0 ELSE V[lo] + SumRange(V, lo + 1, hi)

\* h*c/b
hcb(w) == (w.h * w.c) \div w.b

\* the coupling term U[k] = (h*c/b) * sum of the J fast values of group k
Coupling(w, Y) ==
    Array([k \in 1..w.K |-> hcb(w) * SumRange(Y, (k - 1) * w.J + 1, k * w.J)])

\* position in Y of the fast variable (j + s, k), for 0-based j and k
FastIndex(w, k, j, s) ==
    IF w.period = "group"
    THEN k * w.J + ((j + s) % w.J) + 1
    ELSE ((k * w.J + j + s) % (w.K * w.J)) + 1

\* fast tendency:
\* -c*b*Y[j+1,k]*(Y[j+2,k] - Y[j-1,k]) - c*Y[j,k] + (h*c/b)*X[k]
L96_fast_xdot(w, Xv, Y) ==
    Array([m \in 1..(w.K * w.J) |->
        LET k == (m - 1) \div w.J
            j == (m - 1) % w.J
        IN  -w.c * w.b * Y[FastIndex(w, k, j, 1)]
                * (Y[FastIndex(w, k, j, 2)] - Y[FastIndex(w, k, j, -1)])
              - w.c * Y[m] + hcb(w) * Xv[k + 1]])

\* coupled tendency: slow tendency with U, fast tendency, and the
\* fast-to-slow forcing -U as the coupling diagnostic
L96_2t_xdot_ydot(w, Xv, Y) ==
    LET U == Coupling(w, Y)
        Xdot == L96_eq1_xdot(Xv, w.F)
    IN  [Xdot |-> Array([k \in 1..w.K |-> Xdot[k] - U[k]]),
         Ydot |-> L96_fast_xdot(w, Xv, Y),
         XYtend |-> Array([k \in 1..w.K |-> -U[k]])]

\* one step of the coupled state (X, Y) with the step scheme, and the
\* coupling term its tendency evaluation at (X, Y) computed
L96_step(w, scheme, d, Xv, Y) ==
    IF scheme = "RK4"
    THEN LET k1 == L96_2t_xdot_ydot(w, Xv, Y)
             k2 == L96_2t_xdot_ydot(w, RK4_half(d, Xv, k1.Xdot),
                                       RK4_half(d, Y, k1.Ydot))
             k3 == L96_2t_xdot_ydot(w, RK4_half(d, Xv, k2.Xdot),
                                       RK4_half(d, Y, k2.Ydot))
             k4 == L96_2t_xdot_ydot(w, RK4_full(d, Xv, k3.Xdot),
                                       RK4_full(d, Y, k3.Ydot))
         IN  [X |-> RK4_combine(d, Xv, k1.Xdot, k2.Xdot, k3.Xdot, k4.Xdot),
              Y |-> RK4_combine(d, Y, k1.Ydot, k2.Ydot, k3.Ydot, k4.Ydot),
              XYtend |-> k1.XYtend]
    ELSE LET k1 == L96_2t_xdot_ydot(w, Xv, Y)
         IN  [X |-> EulerFwd(d, Xv, k1.Xdot), Y |-> EulerFwd(d, Y, k1.Ydot),
              XYtend |-> k1.XYtend]

\* the records of a run before its first step: sample 0 of the state records
\* is the state of the object, the times start at the time of the object,
\* and the coupling record of the same length has nothing stored yet
L96_run_entry(w, d, m) ==
    [X |-> [NanArray(m + 1, w.K) EXCEPT
               ![1] = IF w.nan THEN @ ELSE Row(w.X)],
     Y |-> [NanArray(m + 1, w.K * w.J) EXCEPT
               ![1] = IF w.nan THEN @ ELSE Row(w.Y)],
     t |-> Array([i \in 1..(m + 1) |-> w.t + d * (i - 1)]),
     xy |-> NanArray(m + 1, w.K)]

\* step i of the run from the state (Xv, Y): the stepped state is recorded
\* as sample i+1 together with its time and with the coupling term computed
\* during the tendency evaluation of the step, unless the state diverged
L96_run_body(w, scheme, d, Xv, Y, i, r) ==
    LET s == L96_step(w, scheme, d, Xv, Y)
    IN  IF MaxAbs(s.X \o s.Y) > 1000
        THEN [stop |-> TRUE, X |-> s.X, Y |-> s.Y, r |-> r]
        ELSE [stop |-> FALSE, X |-> s.X, Y |-> s.Y,
              r |-> [X |-> [r.X EXCEPT ![i + 2] = Row(s.X)],
                     Y |-> [r.Y EXCEPT ![i + 2] = Row(s.Y)],
                     t |-> [r.t EXCEPT ![i + 2] = w.t + d * (i + 1)],
                     xy |-> [r.xy EXCEPT ![i + 2] = Row(s.XYtend)]]]

\* what W.run returns: the tuple (X, Y, t) or (X, Y, t, xy)
L96_run_result(r, return_coupling) ==
    IF return_coupling THEN <<r.X, r.Y, r.t, r.xy>> ELSE <<r.X, r.Y, r.t>>

\* entry k of one row of U_sample; a sum over a NaN cell is NaN
GroupCell(h, c, b, J, row, k) ==
    IF \E j \in 1..J : row[(k - 1) * J + j].nan THEN NaN
    ELSE Num(((h * c) \div b)
               * SumRange([j \in 1..J |-> row[(k - 1) * J + j].val], 1, J))

U_sample_strided(Y, h, c, b, K, J) ==
    Array([i \in 1..Len(Y) |->
        Array([k \in 1..K |->
            IF \E j \in 1..J : Y[i][(j - 1) * K + k].nan THEN NaN
            ELSE Num(((h * c) \div b)
                       * SumRange([j \in 1..J |-> Y[i][(j - 1) * K + k].val], 1, J))])])

\* (W.h * W.c / W.b) * Y.reshape((Y.shape[0], W.K, W.J)).sum(axis=-1)
\* for a record Y of rows of cells
U_sample_of(Y, h, c, b, K, J) ==
    Array([i \in 1..Len(Y) |->
        Array([k \in 1..K |-> GroupCell(h, c, b, J, Y[i], k)])])

\* a new L96 object: its state at time 0
L96(K, J, f, co, per, a, a2) ==
    [cls |-> "L96", K |-> K, J |-> J, F |-> f,
     h |-> co.h, c |-> co.c, b |-> co.b, period |-> per,
     X |-> SlowPattern(a, K), Y |-> FastPattern(a2, K * J),
     t |-> 0, nan |-> FALSE]

\* the ways the fast index wraps that differ for J fast variables per group
PeriodsOf(J) == IF J >= 2 THEN FastPeriods ELSE {"group"}

\* W = L96(K, J, F=forcing) with its initial state
L96_init ==
    /\ W = NoObject
    /\ \E sh \in L96Shapes, co \in L96Coefficients, f \in L96Fs,
          a \in Patterns :
       \E per \in PeriodsOf(sh.J) :
          W' = L96(sh.K, sh.J, f, co, per, a, a)
    /\ UNCHANGED <<truth, U_sample>>
    /\ UNCHANGED <<runVars, other, seedVars, orderVars, learnVars>>

\* no call of W.run is in progress
RunReturned == IF truth = NoReturn THEN TRUE ELSE truth.pc = "returned"

\* W.run(si, T[, store=True, return_coupling=True]) is called on the state
\* the object holds, with si > 0 and T >= 0: nt = int(T / si)
L96_run_Call ==
    /\ W # NoObject /\ RunReturned
    /\ IF truth = NoReturn THEN TRUE ELSE truth.k < MaxRuns
    /\ \E scheme \in Schemes, opt \in BOOLEAN :
       \E si \in TruthDts(W, scheme) :
       \E T \in TruthTs(si) :
          LET m == IntQuotient(T, si)
          IN  truth' = [pc |-> "loop", self |-> W, scheme |-> scheme,
                        dt |-> si, nt |-> m,
                        store |-> opt, return_coupling |-> opt,
                        n |-> 0, X |-> W.X, Y |-> W.Y,
                        r |-> L96_run_entry(W, si, m), ret |-> NoReturn,
                        k |-> IF truth = NoReturn THEN 1 ELSE truth.k + 1]
    /\ UNCHANGED <<W, U_sample>>
    /\ UNCHANGED <<runVars, other, seedVars, orderVars, learnVars>>

\* one iteration of the loop of the run; from a state that is not a number
\* every later sample is not a number and the guard never stops the run
L96_run_Step ==
    /\ truth # NoReturn /\ truth.pc = "loop" /\ truth.n < truth.nt
    /\ IF W.nan
       THEN truth' = [truth EXCEPT !.n = truth.n + 1]
       ELSE LET b == L96_run_body(W, truth.scheme, truth.dt, truth.X, truth.Y,
                                  truth.n, truth.r)
            IN  truth' = [truth EXCEPT
                             !.pc = IF b.stop THEN "break" ELSE "loop",
                             !.n = IF b.stop THEN truth.n ELSE truth.n + 1,
                             !.X = b.X, !.Y = b.Y, !.r = b.r]
    /\ UNCHANGED <<W, U_sample>>
    /\ UNCHANGED <<runVars, other, seedVars, orderVars, learnVars>>

\* if store: self.X, self.Y, self.t = X[-1], Y[-1], t[-1]
L96_run_store(w, r) ==
    LET last == Len(r.X)
        unset == RowUnset(r.X[last]) \/ RowUnset(r.Y[last])
    IN  [w EXCEPT !.X = IF unset THEN Array([k \in 1..w.K |-> 0])
                        ELSE Vals(r.X[last]),
                  !.Y = IF unset THEN Array([k \in 1..(w.K * w.J) |-> 0])
                        ELSE Vals(r.Y[last]),
                  !.nan = unset,
                  !.t = r.t[last]]

\* the run returns: with store the last sample becomes the state of the
\* object; X_true, Y_true, t[, xy_true] = the returned tuple
L96_run_Return ==
    /\ truth # NoReturn
    /\ \/ truth.pc = "loop" /\ truth.n = truth.nt
       \/ truth.pc = "break"
    /\ truth' = [truth EXCEPT !.pc = "returned",
                              !.ret = L96_run_result(truth.r, truth.return_coupling)]
    /\ W' = IF truth.store THEN L96_run_store(W, truth.r) ELSE W
    /\ UNCHANGED U_sample
    /\ UNCHANGED <<runVars, other, seedVars, orderVars, learnVars>>

\* U_sample = (W.h * W.c / W.b) * Y.reshape((Y.shape[0], W.K, W.J)).sum(axis=-1)
\* with the Y of the latest run and the W bound now; reshape raises when the
\* rows of Y do not hold W.K * W.J values
U_sample_cell ==
    /\ W # NoObject /\ truth # NoReturn /\ truth.pc = "returned"
    /\ Len(truth.ret[2][1]) = W.K * W.J
    /\ U_sample' = U_sample_of(truth.ret[2], W.h, W.c, W.b, W.K, W.J)
    /\ UNCHANGED <<W, truth>>
    /\ UNCHANGED <<runVars, other, seedVars, orderVars, learnVars>>

\* the object of W = L96(8, 32): default coefficients and forcing
L96_default ==
    L96(2, 3, 8, [h |-> 1, c |-> 1, b |-> 1], "group", 1, 1)

\* np.random.seed(23); W = L96(8, 32): the generator is seeded anew and W is
\* bound to a new object; every other name keeps its value
L96_restart ==
    /\ RunReturned
    /\ np_random' = [seed |-> 23, draws |-> 0]
    /\ W' = L96_default
    /\ UNCHANGED <<truth, U_sample, X_init, memo>>
    /\ UNCHANGED <<runVars, other, orderVars, learnVars>>

NextTwoScale ==
    \/ L96_init
    \/ L96_run_Call
    \/ L96_run_Step
    \/ L96_run_Return
    \/ U_sample_cell
    \/ L96_restart

SpecTwoScale == Init /\ [][NextTwoScale]_vars

----------------------------------------------------------------------------
(* The seeded cell of gcm-analogue and the GCM runs from its X_init *)

Seeds == {13, 23}

\* values drawn from np.random by other cells between two runs
MaxDraws == 2

\* the two-time-scale model the seeded cell uses
ReproW ==
    L96(4, 1, 8, [h |-> 1, c |-> 1, b |-> 1], "group", 1, 1)

ReproDts == {0, 1}
ReproParams == { <<1, 1>> }

\* W.randomize_IC(): X = b * randn(K), Y = randn(K*J)
randomize_IC(w, g) ==
    LET r == Randn(g, w.K)
    IN  [W |-> [w EXCEPT !.X = Array([k \in 1..w.K |-> w.b * r[k]]),
                         !.Y = Randn(Drawn(g, w.K), w.K * w.J),
                         !.nan = FALSE],
         g |-> Drawn(g, w.K + w.K * w.J)]

\* X_init = X_true[0] + 0.0 * np.random.randn(W.K)
X_init_of(X_true_0, noise) ==
    Array([k \in 1..Len(X_true_0) |-> X_true_0[k] + 0 * noise[k]])

\* values the seeded cell draws
SeededCellDraws(w) == 2 * w.K + w.K * w.J

\* np.random.seed(s); W.randomize_IC().run(...); X_init = X_true[0] + 0.0*randn(K)
\* (sample 0 of the run is the randomized state)
Seeded_cell ==
    /\ pc = "idle" /\ W # NoObject
    /\ \E s \in Seeds :
          LET ic == randomize_IC(W, [seed |-> s, draws |-> 0])
          IN  /\ W' = ic.W
              /\ X_init' = X_init_of(ic.W.X, Randn(ic.g, W.K))
              /\ np_random' = Drawn(ic.g, W.K)
    /\ UNCHANGED <<runVars, other, truth, U_sample, memo, orderVars, learnVars>>

\* another cell draws a value from np.random
Draw_cell ==
    /\ pc = "idle"
    /\ np_random.draws < SeededCellDraws(W) + MaxDraws
    /\ np_random' = Drawn(np_random, 1)
    /\ UNCHANGED <<runVars, other, twoScaleVars, X_init, memo, orderVars, learnVars>>

\* X_gcm, T_gcm = GCM(X_init, F_mod, dt, nt[, param=p]) with F_mod = W.F + 0.0
Seeded_GCM_Call ==
    /\ X_init # <<>>
    /\ GCM_CallWith({X_init}, {W.F}, ReproDts, Nts, ReproParams)
    /\ UNCHANGED <<other, twoScaleVars, seedVars, orderVars, learnVars>>

\* the arguments of the running call and the seed its X_init was drawn with
RunArguments ==
    [seed |-> np_random.seed, F |-> F, dt |-> dt, nt |-> nt, param |-> param]

\* GCM returns; the result of one run is kept for later comparison
Seeded_GCM_Return ==
    /\ GCM_Finish
    /\ \/ UNCHANGED memo
       \/ /\ memo = NoReturn
          /\ memo' = [args |-> RunArguments, ret |-> <<hist, time>>]
    /\ UNCHANGED <<other, twoScaleVars, np_random, X_init, orderVars, learnVars>>

InitRepro ==
    /\ gcm = NoObject
    /\ RunIdle
    /\ other = NoOther
    /\ W = ReproW /\ truth = NoReturn /\ U_sample = <<>>
    /\ np_random = [seed |-> NoSeed, draws |-> 0] /\ X_init = <<>> /\ memo = NoReturn
    /\ ode = NoObject /\ data = NoObject /\ fit = NoObject

NextRepro ==
    \/ Seeded_cell
    \/ Draw_cell
    \/ Seeded_GCM_Call
    \/ GCM_Step
    \/ Seeded_GCM_Return
    \/ Discard

SpecRepro == InitRepro /\ [][NextRepro]_vars

----------------------------------------------------------------------------
(* Two runs of one GCM_network object, their iterations interleaved *)

PairX0s == { <<1, 0, 2>>, <<1, 0, 0, 0>> }

\* gcm = GCM_network(F, network) while no run uses the previous object
Pair_init ==
    /\ other = NoOther
    /\ GCM_network_init

\* the first run: gcm(x0, dt, nt[, param])
Pair_Call ==
    /\ gcm.cls = "GCM_network"
    /\ Class_CallWith(PairX0s, Nts, { <<0>> })
    /\ UNCHANGED <<other, twoScaleVars, seedVars, orderVars, learnVars>>

\* the second run: gcm(x0, dt, nt) on the same object
Other_Call ==
    /\ other = NoOther /\ gcm.cls = "GCM_network"
    /\ \E x0 \in PairX0s, m \in Nts :
       \E d \in ClassDts(gcm.time_stepping, x0) :
          LET e == Class_entry(x0, d, m)
          IN  other' = [pc |-> "loop", X0 |-> x0, dt |-> d, nt |-> m, n |-> 0,
                        X |-> e.X, hist |-> e.hist, time |-> e.time,
                        err |-> NoError, ret |-> NoReturn]
    /\ UNCHANGED <<runVars, twoScaleVars, seedVars, orderVars, learnVars>>

\* one iteration of the second run
Other_Step ==
    /\ other.pc = "loop" /\ other.n < other.nt
    /\ \E failAt \in FailPoints(gcm, other.X) :
          LET s == GCM_network_body(gcm, other.X, other.dt, other.n,
                                    other.hist, other.time, failAt)
          IN  other' = [other EXCEPT !.pc = s.pc, !.err = s.err, !.X = s.X,
                                     !.n = s.n, !.hist = s.hist, !.time = s.time,
                                     !.X0 = X0_after_step(other.X0, s.X)]
    /\ gcm' = Self_after_step(gcm)
    /\ UNCHANGED <<driver, X0, F, dt, nt, param, pc, n, X, hist, time, evals, err,
                   ret, param_default, defaulted>>
    /\ UNCHANGED <<twoScaleVars, seedVars, orderVars, learnVars>>

Other_Return ==
    /\ other.pc = "loop" /\ other.n = other.nt
    /\ other' = [other EXCEPT !.pc = "returned", !.ret = <<other.hist, other.time>>]
    /\ UNCHANGED <<runVars, twoScaleVars, seedVars, orderVars, learnVars>>

\* the caller drops the result of the second run
Other_Discard ==
    /\ other.pc \in {"returned", "raised"}
    /\ other' = NoOther
    /\ UNCHANGED <<runVars, twoScaleVars, seedVars, orderVars, learnVars>>

NextPair ==
    \/ Pair_init
    \/ Pair_Call
    \/ GCM_network_Step
    \/ Class_Return
    \/ Discard
    \/ Other_Call
    \/ Other_Step
    \/ Other_Return
    \/ Other_Discard

SpecPair == Init /\ [][NextPair]_vars

----------------------------------------------------------------------------
(* Runs of one class driver that differ only in the param argument *)

ParamX0s == { <<1, 0, 2>>, <<1, 0, 0, 0>> }

\* the network as it is passed for param: what a closure would read from it
AsParam(net) == <<net.w, net.b>>

\* the values passed for param: coefficient lists, or the driver's own network
ParamValues(self) ==
    { <<0>>, <<1, 1>> }
        \cup (IF self.cls = "GCM_network" THEN { AsParam(self.network) } ELSE {})

\* gcm = GCM_without_parameterization(forcing) or GCM_network(forcing, network)
Param_init ==
    /\ memo = NoReturn
    /\ \/ GCM_without_parameterization_init
       \/ GCM_network_init
    /\ gcm'.F = 1 /\ ~gcm'.network.faulty

\* gcm(x0, dt, nt, param)
Param_Call ==
    /\ gcm # NoObject
    /\ Class_CallWith(ParamX0s, Nts, ParamValues(gcm))
    /\ UNCHANGED <<other, twoScaleVars, seedVars, orderVars, learnVars>>

\* the arguments of the running call other than param
ClassArguments == [self |-> gcm, X0 |-> X0, dt |-> dt, nt |-> nt]

\* the run returns; the result of one run is kept for later comparison
Param_Return ==
    /\ Class_Finish
    /\ \/ UNCHANGED memo
       \/ /\ memo = NoReturn
          /\ memo' = [args |-> ClassArguments, param |-> param,
                      ret |-> <<hist, time>>]
    /\ UNCHANGED <<other, twoScaleVars, np_random, X_init, orderVars, learnVars>>

NextParam ==
    \/ Param_init
    \/ Param_Call
    \/ GCM_without_parameterization_Step
    \/ GCM_network_Step
    \/ Param_Return
    \/ Discard

SpecParam == Init /\ [][NextParam]_vars

----------------------------------------------------------------------------
(* Scheme order check: the step schemes of L96_model on a linear test      *)
(* equation with a closed-form solution                                     *)

\* the interval of the check and the time increments that divide it; RK2
\* divides by 2 and RK4 by 2 and 6, so every increment is a multiple of 6
OrderT == 24
OrderDts == {6, 12, 24}

OrderSchemes == {"EulerFwd", "RK2", "RK4"}

\* the two usual two-stage schemes: the spec leaves the variant open
RK2Variants == {"midpoint", "heun"}

\* the largest number of components of the test equation
MaxChain == 6

\* initial conditions of the test equation with m components: multiples of
\* 5! so that the closed-form solution is whole
ChainX0s(m) ==
    { Array([k \in 1..m |-> IF k = m THEN 120 ELSE 0]),
      Array([k \in 1..m |-> 120]),
      Array([k \in 1..m |-> IF k % 2 = 0 THEN 240 ELSE -120]) }

\* tendency of the test equation x' = A x with A the shift matrix:
\* x[k]' = x[k+1] for k < m and x[m]' = 0
Chain_xdot(V) == Array([k \in 1..Len(V) |-> IF k < Len(V) THEN V[k + 1] ELSE 0])

RECURSIVE Factorial(_)
Factorial(j) == IF j = 0 THEN 1 ELSE j * Factorial(j - 1)

RECURSIVE Power(_, _)
Power(x, j) == IF j = 0 THEN 1 ELSE x * Power(x, j - 1)

\* closed-form solution at time t from x(0) = V:
\* x[k](t) = sum over j of V[k+j] * t^j / j!
RECURSIVE ChainTerm(_, _, _, _)
ChainTerm(V, k, t, j) ==
    IF k + j > Len(V) THEN 0
    ELSE (V[k + j] \div Factorial(j)) * Power(t, j) + ChainTerm(V, k, t, j + 1)

Chain_exact(V, t) == Array([k \in 1..Len(V) |-> ChainTerm(V, k, t, 0)])

\* RK2 (midpoint): X + dt * fn(X + 0.5 * dt * fn(X)), given Xdot2 = fn(X1)
RK2_midpoint(d, V, Xdot2) == Array([k \in 1..Len(V) |-> V[k] + d * Xdot2[k]])

\* RK2 (Heun): X + 0.5 * dt * (fn(X) + fn(X + dt * fn(X)))
RK2_heun(d, V, Xdot1, Xdot2) ==
    Array([k \in 1..Len(V) |-> V[k] + (d * (Xdot1[k] + Xdot2[k])) \div 2])

\* scheme(fn, dt, X) with fn the tendency of the test equation
Chain_step(scheme, variant, d, V) ==
    IF scheme = "RK4"
    THEN LET Xdot1 == Chain_xdot(V)
             Xdot2 == Chain_xdot(RK4_half(d, V, Xdot1))
             Xdot3 == Chain_xdot(RK4_half(d, V, Xdot2))
             Xdot4 == Chain_xdot(RK4_full(d, V, Xdot3))
         IN  RK4_combine(d, V, Xdot1, Xdot2, Xdot3, Xdot4)
    ELSE IF scheme = "RK2"
    THEN LET Xdot1 == Chain_xdot(V)
         IN  IF variant = "midpoint"
             THEN RK2_midpoint(d, V, Chain_xdot(RK4_half(d, V, Xdot1)))
             ELSE RK2_heun(d, V, Xdot1, Chain_xdot(RK4_full(d, V, Xdot1)))
    ELSE EulerFwd(d, V, Chain_xdot(V))

\* the check starts one integration over the interval
Order_Call ==
    /\ ode = NoObject
    /\ \E scheme \in OrderSchemes, variant \in RK2Variants, m \in 1..MaxChain,
          d \in OrderDts :
       \E x0 \in ChainX0s(m) :
          /\ scheme # "RK2" => variant = "midpoint"
          /\ ode' = [pc |-> "loop", scheme |-> scheme, variant |-> variant,
                     dt |-> d, nt |-> OrderT \div d, n |-> 0, X0 |-> x0, X |-> x0]
    /\ UNCHANGED <<runVars, other, twoScaleVars, seedVars, learnVars>>

\* one step of the scheme
Order_Step ==
    /\ ode # NoObject /\ ode.pc = "loop" /\ ode.n < ode.nt
    /\ ode' = [ode EXCEPT !.X = Chain_step(ode.scheme, ode.variant, ode.dt, ode.X),
                          !.n = ode.n + 1]
    /\ UNCHANGED <<runVars, other, twoScaleVars, seedVars, learnVars>>

\* the end of the interval is reached
Order_Return ==
    /\ ode # NoObject /\ ode.pc = "loop" /\ ode.n = ode.nt
    /\ ode' = [ode EXCEPT !.pc = "returned"]
    /\ UNCHANGED <<runVars, other, twoScaleVars, seedVars, learnVars>>

Order_Discard ==
    /\ ode # NoObject /\ ode.pc = "returned"
    /\ ode' = NoObject
    /\ UNCHANGED <<runVars, other, twoScaleVars, seedVars, learnVars>>

NextOrder ==
    \/ Order_Call
    \/ Order_Step
    \/ Order_Return
    \/ Order_Discard

SpecOrder == Init /\ [][NextOrder]_vars

----------------------------------------------------------------------------
(* Training notebook: train_model, test_model, fit_model *)

\* Weights, gradients and predictions are held in thousandths and losses in
\* millionths; a quotient is rounded to the nearest whole number of them.
\* a / b for b > 0
RoundDiv(a, b) ==
    IF a >= 0 THEN (2 * a + b) \div (2 * b) ELSE -((2 * (-a) + b) \div (2 * b))

\* the largest s in lo..hi with s * s <= v
RECURSIVE SqrtIn(_, _, _)
SqrtIn(v, lo, hi) ==
    IF lo = hi THEN lo
    ELSE LET mid == (lo + hi + 1) \div 2
         IN  IF mid * mid <= v THEN SqrtIn(v, mid, hi) ELSE SqrtIn(v, lo, mid - 1)

\* the whole part of the square root of v >= 0
Sqrt(v) == SqrtIn(v, 0, 46340)

\* scale * (1 - 1/k)^t
RECURSIVE BetaPower(_, _, _)
BetaPower(t, scale, k) ==
    IF t = 0 THEN scale
    ELSE LET q == BetaPower(t - 1, scale, k) IN q - q \div k

\* the sum of the entries of V
SumOf(V) == SumRange(V, 1, Len(V))

\* the samples (x, y) of local_dataset / local_dataset_test
TrainSets ==
    { << <<1, 2>>, <<0, 1>>, <<-1, 1>> >>,
      << <<1, 0>>, <<0, 2>> >> }

TestSets ==
    { << <<1, 1>> >>,
      << <<0, 0>>, <<-1, 2>>, <<1, 3>> >> }

\* batch_size of the loaders
BatchSizes == {1, 2}

\* n_epochs given to fit_model
Epochs == {0, 1, 2}

\* the weights of LinearRegression at the call
InitialWeights == { [w |-> 0, b |-> 0], [w |-> 1000, b |-> -1000] }

\* the .grad buffers at the call: cleared, or left by an earlier backward()
InitialGrads == { [w |-> 0, b |-> 0], [w |-> 3000, b |-> 1000] }

\* lr of the optimizer, in thousandths: rates whose adjustments the
\* thousandths resolve
LearningRates == {100, 500}

\* optim.Adam(network.parameters(), lr): betas = (0.9, 0.999), no step made;
\* exp_avg is held in ten-thousandths and exp_avg_sq in units of 10^-9
Adam(lr) ==
    [lr |-> lr, step |-> 0,
     exp_avg |-> [w |-> 0, b |-> 0], exp_avg_sq |-> [w |-> 0, b |-> 0]]

\* the change Adam makes to one parameter at step t:
\* lr * (exp_avg / (1 - 0.9^t)) / (sqrt(exp_avg_sq / (1 - 0.999^t)) + eps);
\* eps = 1e-8 is below the thousandths the values are held in
Adam_update(lr, t, exp_avg, exp_avg_sq) ==
    LET bias_correction1 == 10000 - BetaPower(t, 10000, 10)
        bias_correction2 == 1000000000 - BetaPower(t, 1000000000, 1000)
        m_hat == RoundDiv(exp_avg * 1000, bias_correction1)
        denom == RoundDiv(Sqrt(exp_avg_sq) * 10000, Sqrt(100 * bias_correction2))
    IN  IF denom = 0 THEN 0 ELSE RoundDiv(lr * m_hat, denom)

\* Data.DataLoader(dataset, batch_size, shuffle=True)
DataLoader(dataset, batch_size) == [dataset |-> dataset, batch_size |-> batch_size]

\* len(loader): the last batch may be smaller, it is not dropped
Loader_len(loader) ==
    (Len(loader.dataset) + loader.batch_size - 1) \div loader.batch_size

\* iter(loader) with shuffle=True: the orders in which a pass may visit the samples
Orders(loader) ==
    { p \in [1..Len(loader.dataset) -> 1..Len(loader.dataset)] :
         \A i, j \in 1..Len(loader.dataset) : p[i] = p[j] => i = j }

\* the sample indices of batch j of a pass that visits the samples in order
BatchIndex(loader, order, j) ==
    LET lo == (j - 1) * loader.batch_size
        hi == IF j * loader.batch_size < Len(loader.dataset)
              THEN j * loader.batch_size ELSE Len(loader.dataset)
    IN  Array([k \in 1..(hi - lo) |-> order[lo + k]])

\* batch j of the pass: (batch_x, batch_y)
Batch(loader, order, j) ==
    LET idx == BatchIndex(loader, order, j)
    IN  [x |-> Array([k \in 1..Len(idx) |-> loader.dataset[idx[k]][1]]),
         y |-> Array([k \in 1..Len(idx) |-> loader.dataset[idx[k]][2]])]

\* torch.squeeze(network(torch.unsqueeze(batch_x, 1))) of LinearRegression
forward(network, batch_x) ==
    Array([k \in 1..Len(batch_x) |-> network.w * batch_x[k] + network.b])

\* criterion: torch.nn.MSELoss(), the mean of the squared differences
loss_fn(prediction, batch_y) ==
    RoundDiv(SumOf(Array([k \in 1..Len(batch_y) |->
                             (prediction[k] - 1000 * batch_y[k])
                                 * (prediction[k] - 1000 * batch_y[k])])),
             Len(batch_y))

\* optimizer.zero_grad()
zero_grad(grad) == [w |-> 0, b |-> 0]

\* loss.backward(): the gradient of the loss is added to the .grad buffers
backward(batch_x, prediction, batch_y, grad) ==
    LET B == Len(batch_y)
        r == Array([k \in 1..B |-> prediction[k] - 1000 * batch_y[k]])
    IN  [w |-> grad.w + RoundDiv(2 * SumOf(Array([k \in 1..B |-> r[k] * batch_x[k]])), B),
         b |-> grad.b + RoundDiv(2 * SumOf(r), B)]

\* optimizer.step() of Adam: the step count, the running averages of the
\* gradient and of its square, and the new weights
optimizer_step(optimizer, network, grad) ==
    LET t == optimizer.step + 1
        m == [w |-> RoundDiv(9 * optimizer.exp_avg.w, 10) + grad.w,
              b |-> RoundDiv(9 * optimizer.exp_avg.b, 10) + grad.b]
        v == [w |-> optimizer.exp_avg_sq.w - optimizer.exp_avg_sq.w \div 1000
                        + grad.w * grad.w,
              b |-> optimizer.exp_avg_sq.b - optimizer.exp_avg_sq.b \div 1000
                        + grad.b * grad.b]
    IN  [optimizer |-> [optimizer EXCEPT !.step = t, !.exp_avg = m,
                                         !.exp_avg_sq = v],
         network |-> [network EXCEPT
                         !.w = network.w - Adam_update(optimizer.lr, t, m.w, v.w),
                         !.b = network.b - Adam_update(optimizer.lr, t, m.b, v.b)]]

\* the optimizers fit_model may be given when the .grad buffers hold grad:
\* as constructed, or after the one step made with those gradients
Optimizers(grad) ==
    { Adam(lr) : lr \in LearningRates }
        \cup { optimizer_step(Adam(lr), [w |-> 0, b |-> 0], grad).optimizer :
                  lr \in LearningRates }

\* one pass of the loop body of train_model on (batch_x, batch_y)
train_model_body_accumulating(f, batch) ==
    LET prediction == forward(f.network, batch.x)
        loss == loss_fn(prediction, batch.y)
        grad == backward(batch.x, prediction, batch.y, f.grad)
        s == optimizer_step(f.optimizer, f.network, grad)
    IN  [f EXCEPT !.train_loss = f.train_loss + loss,
                  !.grad = grad,
                  !.optimizer = s.optimizer,
                  !.network = s.network,
                  !.steps = f.steps + 1,
                  !.i = f.i + 1]

train_model_body(f, batch) ==
    LET prediction == forward(f.network, batch.x)
        loss == loss_fn(prediction, batch.y)
        grad == backward(batch.x, prediction, batch.y, zero_grad(f.grad))
        s == optimizer_step(f.optimizer, f.network, grad)
    IN  [f EXCEPT !.train_loss = f.train_loss + loss,
                  !.grad = grad,
                  !.optimizer = s.optimizer,
                  !.network = s.network,
                  !.steps = f.steps + 1,
                  !.i = f.i + 1]

\* one pass of the loop body of test_model, under torch.no_grad()
test_model_body_stepping(f, batch) ==
    LET prediction == forward(f.network, batch.x)
        loss == loss_fn(prediction, batch.y)
        s == optimizer_step(f.optimizer, f.network, f.grad)
    IN  [f EXCEPT !.test_loss = f.test_loss + loss,
                  !.optimizer = s.optimizer,
                  !.network = s.network,
                  !.i = f.i + 1]

test_model_body(f, batch) ==
    LET prediction == forward(f.network, batch.x)
        loss == loss_fn(prediction, batch.y)
    IN  [f EXCEPT !.test_loss = f.test_loss + loss,
                  !.i = f.i + 1]

\* fit_model(network, criterion, optimizer, train_loader, test_loader, n_epochs)
Fit_Call ==
    /\ fit = NoObject
    /\ \E net \in InitialWeights, g \in InitialGrads,
          tr \in TrainSets, te \in TestSets, bs \in BatchSizes, ne \in Epochs :
       \E opt \in Optimizers(g) :
          fit' = [pc |-> "epoch",
                  network |-> [w |-> net.w, b |-> net.b, training |-> TRUE],
                  grad |-> g,
                  optimizer |-> opt,
                  train_loader |-> DataLoader(tr, bs),
                  test_loader |-> DataLoader(te, bs),
                  n_epochs |-> ne,
                  epoch |-> 0,
                  order |-> <<>>, i |-> 0,
                  train_loss |-> 0, test_loss |-> 0,
                  train_losses |-> <<>>, test_losses |-> <<>>,
                  steps |-> 0, before |-> <<>>]
    /\ UNCHANGED data
    /\ UNCHANGED <<runVars, other, twoScaleVars, seedVars, orderVars>>

\* train_model is entered: network.train(), train_loss = 0, the pass starts
Train_Enter ==
    /\ fit # NoObject /\ fit.pc = "epoch" /\ fit.epoch < fit.n_epochs
    /\ \E order \in Orders(fit.train_loader) :
          fit' = [fit EXCEPT !.pc = "train",
                             !.network.training = TRUE,
                             !.train_loss = 0,
                             !.order = order, !.i = 0,
                             !.before = <<>>]
    /\ UNCHANGED data
    /\ UNCHANGED <<runVars, other, twoScaleVars, seedVars, orderVars>>

\* one iteration of the loop of train_model
Train_Batch ==
    /\ fit # NoObject /\ fit.pc = "train" /\ fit.i < Loader_len(fit.train_loader)
    /\ LET s == train_model_body(fit, Batch(fit.train_loader, fit.order, fit.i + 1))
       IN  fit' = [s EXCEPT !.before =
                       Append(fit.before, [w |-> fit.network.w, b |-> fit.network.b])]
    /\ UNCHANGED data
    /\ UNCHANGED <<runVars, other, twoScaleVars, seedVars, orderVars>>

\* return train_loss / len(loader)
Train_Return ==
    /\ fit # NoObject /\ fit.pc = "train" /\ fit.i = Loader_len(fit.train_loader)
    /\ fit' = [fit EXCEPT !.pc = "trained",
                          !.train_loss = RoundDiv(fit.train_loss,
                                                  Loader_len(fit.train_loader))]
    /\ UNCHANGED data
    /\ UNCHANGED <<runVars, other, twoScaleVars, seedVars, orderVars>>

\* test_model is entered: network.eval(), test_loss = 0, the pass starts
Test_Enter ==
    /\ fit # NoObject /\ fit.pc = "trained"
    /\ \E order \in Orders(fit.test_loader) :
          fit' = [fit EXCEPT !.pc = "test",
                             !.network.training = FALSE,
                             !.test_loss = 0,
                             !.order = order, !.i = 0]
    /\ UNCHANGED data
    /\ UNCHANGED <<runVars, other, twoScaleVars, seedVars, orderVars>>

\* one iteration of the loop of test_model
Test_Batch ==
    /\ fit # NoObject /\ fit.pc = "test" /\ fit.i < Loader_len(fit.test_loader)
    /\ fit' = test_model_body(fit, Batch(fit.test_loader, fit.order, fit.i + 1))
    /\ UNCHANGED data
    /\ UNCHANGED <<runVars, other, twoScaleVars, seedVars, orderVars>>

\* test_loss /= len(loader); return; the two losses are appended
Test_Return ==
    /\ fit # NoObject /\ fit.pc = "test" /\ fit.i = Loader_len(fit.test_loader)
    /\ LET test_loss == RoundDiv(fit.test_loss, Loader_len(fit.test_loader))
       IN  fit' = [fit EXCEPT !.pc = "epoch",
                              !.test_loss = test_loss,
                              !.train_losses = Append(fit.train_losses, fit.train_loss),
                              !.test_losses = Append(fit.test_losses, test_loss),
                              !.epoch = fit.epoch + 1]
    /\ UNCHANGED data
    /\ UNCHANGED <<runVars, other, twoScaleVars, seedVars, orderVars>>

\* return train_losses, test_losses
Fit_Return ==
    /\ fit # NoObject /\ fit.pc = "epoch" /\ fit.epoch = fit.n_epochs
    /\ fit' = [fit EXCEPT !.pc = "returned"]
    /\ UNCHANGED data
    /\ UNCHANGED <<runVars, other, twoScaleVars, seedVars, orderVars>>

Fit_Discard ==
    /\ fit # NoObject /\ fit.pc = "returned"
    /\ fit' = NoObject
    /\ UNCHANGED data
    /\ UNCHANGED <<runVars, other, twoScaleVars, seedVars, orderVars>>

NextFit ==
    \/ Fit_Call
    \/ Train_Enter
    \/ Train_Batch
    \/ Train_Return
    \/ Test_Enter
    \/ Test_Batch
    \/ Test_Return
    \/ Fit_Return
    \/ Fit_Discard

SpecFit == Init /\ [][NextFit]_vars

----------------------------------------------------------------------------
(* Training notebook: the record, the train/test split and the loaders *)

\* the values the notebook assigns
time_steps == 20000
val_size == 4000
BATCH_SIZE == 2000
SlowVariables == 8

\* values tried for time_steps, val_size, BATCH_SIZE and K
TimeSteps == {3, 5, time_steps}
ValSizes == {0, 2, 7, val_size}
LoaderBatchSizes == {2, 3, BATCH_SIZE}
SlowCounts == {2, SlowVariables}

\* times the cell of the run is executed in one session
MaxRecords == 2

NoArray == [base |-> <<"none", 0>>, lo |-> 0, hi |-> 0, cols |-> 0, flat |-> FALSE]
NoLoader == [dataset |-> [x |-> NoArray, y |-> NoArray], batch_size |-> 0]

\* an array a run returns: rows 0..nt of the record, one column per slow
\* variable; base names the array, the arrays of different runs differ
Record(base, m, K) ==
    [base |-> base, lo |-> 0, hi |-> m + 1, cols |-> K, flat |-> FALSE]

\* A.shape[0] of a two-dimensional array
Shape0(A) == A.hi - A.lo

\* a slice bound b on an axis of length len: negative bounds count from the
\* end, and every bound is clamped to the axis
SliceBound(b, len) ==
    IF b < 0 THEN (IF b + len < 0 THEN 0 ELSE b + len)
    ELSE (IF b > len THEN len ELSE b)

\* A[:stop, :], a view of the rows before stop
SliceTo(A, stop) ==
    [A EXCEPT !.hi = A.lo + SliceBound(stop, Shape0(A))]

SliceFrom_after_bound(A, start) ==
    LET s == SliceBound(start, Shape0(A))
    IN  [A EXCEPT !.lo = IF s < Shape0(A) THEN A.lo + s + 1 ELSE A.hi]

\* A[start:, :], a view of the rows from start on
SliceFrom(A, start) ==
    [A EXCEPT !.lo = A.lo + SliceBound(start, Shape0(A))]

\* np.reshape(A, -1): the rows one after the other
Flatten(A) == [A EXCEPT !.flat = TRUE]

\* the number of samples of a tensor: its first dimension
Samples0(A) == IF A.flat THEN Shape0(A) * A.cols ELSE Shape0(A)

\* Data.TensorDataset(x, y)
TensorDataset(x, y) == [x |-> x, y |-> y]

\* len(dataset)
Dataset_len(dataset) == Samples0(dataset.x)

\* len(loader) of Data.DataLoader(dataset, batch_size, shuffle=True):
\* the last batch may be smaller, it is not dropped
Batches(loader) ==
    (Dataset_len(loader.dataset) + loader.batch_size - 1) \div loader.batch_size

\* the names of the notebook before the cell of the run is executed
NoData ==
    [pc |-> "start", runs |-> 0, time_steps |-> 0, K |-> 0,
     X_true |-> NoArray, xy_true |-> NoArray,
     val_size |-> 0, BATCH_SIZE |-> 0,
     X_true_train |-> NoArray, subgrid_tend_train |-> NoArray,
     X_true_test |-> NoArray, subgrid_tend_test |-> NoArray,
     local_loader |-> NoLoader, local_loader_test |-> NoLoader,
     nlocal_loader_train |-> NoLoader, nlocal_loader_test |-> NoLoader]

\* X_true, _, _, xy_true = W.run(dt, T, store=True, return_coupling=True):
\* X_true and xy_true are bound to the arrays of this run, every other name
\* keeps the value it has; the cells after this one have not been executed
\* on the new record
Data_Run ==
    /\ IF data = NoObject THEN TRUE ELSE data.runs < MaxRecords
    /\ \E ts \in TimeSteps, K \in SlowCounts :
          LET names == IF data = NoObject THEN NoData ELSE data
              k == names.runs + 1
          IN  data' = [names EXCEPT
                          !.pc = "record", !.runs = k,
                          !.time_steps = ts, !.K = K,
                          !.X_true = Record(<<"X_true", k>>, ts, K),
                          !.xy_true = Record(<<"xy_true", k>>, ts, K)]
    /\ UNCHANGED fit
    /\ UNCHANGED <<runVars, other, twoScaleVars, seedVars, orderVars>>

\* the cell of the train/test split
Data_Split ==
    /\ data # NoObject /\ data.pc = "record"
    /\ \E v \in ValSizes :
          data' = [data EXCEPT
                      !.pc = "split", !.val_size = v,
                      !.X_true_train = SliceTo(data.X_true, -v),
                      !.subgrid_tend_train = SliceTo(data.xy_true, -v),
                      !.X_true_test = SliceFrom(data.X_true, -v),
                      !.subgrid_tend_test = SliceFrom(data.xy_true, -v)]
    /\ UNCHANGED fit
    /\ UNCHANGED <<runVars, other, twoScaleVars, seedVars, orderVars>>

\* the cell that sets BATCH_SIZE
Data_BatchSize ==
    /\ data # NoObject /\ data.pc = "split"
    /\ \E bs \in LoaderBatchSizes :
          data' = [data EXCEPT !.pc = "batch", !.BATCH_SIZE = bs]
    /\ UNCHANGED fit
    /\ UNCHANGED <<runVars, other, twoScaleVars, seedVars, orderVars>>

\* local_dataset and local_loader: every number of the training set is a sample
Local_Loader ==
    /\ data # NoObject /\ data.pc = "batch"
    /\ Shape0(data.X_true_train) > 0
    /\ data' = [data EXCEPT
                   !.pc = "local",
                   !.local_loader =
                       [dataset |-> TensorDataset(Flatten(data.X_true_train),
                                                  Flatten(data.subgrid_tend_train)),
                        batch_size |-> data.BATCH_SIZE]]
    /\ UNCHANGED fit
    /\ UNCHANGED <<runVars, other, twoScaleVars, seedVars, orderVars>>

\* local_dataset_test and local_loader_test
Local_Loader_Test ==
    /\ data # NoObject /\ data.pc = "local"
    /\ Shape0(data.X_true_test) > 0
    /\ data' = [data EXCEPT
                   !.pc = "local_test",
                   !.local_loader_test =
                       [dataset |-> TensorDataset(Flatten(data.X_true_test),
                                                  Flatten(data.subgrid_tend_test)),
                        batch_size |-> data.BATCH_SIZE]]
    /\ UNCHANGED fit
    /\ UNCHANGED <<runVars, other, twoScaleVars, seedVars, orderVars>>

\* nlocal_loader_train and nlocal_loader_test: every row is a sample
Nonlocal_Loaders ==
    /\ data # NoObject /\ data.pc = "local_test"
    /\ data' = [data EXCEPT
                   !.pc = "nonlocal",
                   !.nlocal_loader_train =
                       [dataset |-> TensorDataset(data.X_true_train,
                                                  data.subgrid_tend_train),
                        batch_size |-> data.BATCH_SIZE],
                   !.nlocal_loader_test =
                       [dataset |-> TensorDataset(data.X_true_test,
                                                  data.subgrid_tend_test),
                        batch_size |-> data.BATCH_SIZE]]
    /\ UNCHANGED fit
    /\ UNCHANGED <<runVars, other, twoScaleVars, seedVars, orderVars>>

NextData ==
    \/ Data_Run
    \/ Data_Split
    \/ Data_BatchSize
    \/ Local_Loader
    \/ Local_Loader_Test
    \/ Nonlocal_Loaders

SpecData == Init /\ [][NextData]_vars

----------------------------------------------------------------------------
(* Vocabulary of the properties *)

ClassDrivers == {"GCM_without_parameterization", "GCM_network"}

\* one explicit-Euler update of S with the tendency T(S, F) - P(S)
EulerUpdate(S, f, d, p) ==
    LET T == L96_eq1_xdot(S, f)
        P == polyval(p, S)
    IN  Array([k \in 1..Len(S) |-> S[k] + d * (T[k] - P[k])])

\* the states that Euler stepping from S computes in at most `left` steps,
\* up to and including the first one that exceeds the threshold
RECURSIVE EulerOrbit(_, _, _, _, _)
EulerOrbit(S, f, d, p, left) ==
    IF left = 0 THEN <<>>
    ELSE LET Y == EulerUpdate(S, f, d, p)
         IN  IF MaxAbs(Y) > 1000 THEN <<Y>>
             ELSE <<Y>> \o EulerOrbit(Y, f, d, p, left - 1)

Diverged(orbit) == Len(orbit) >= 1 /\ MaxAbs(orbit[Len(orbit)]) > 1000

----------------------------------------------------------------------------
(* C1: the class drivers return nt+1 rows and nt+1 times; row 0 is X0, row  *)
(* n+1 is the step scheme applied once to row n, time[n] = n*dt, and no row *)
(* is left unset.                                                           *)
C1_ClassTrajectory ==
    (pc = "returned" /\ driver \in ClassDrivers) =>
        /\ Len(ret[1]) = nt + 1
        /\ Len(ret[2]) = nt + 1
        /\ ret[1][1] = Row(X0)
        /\ \A i \in 1..nt :
              ret[1][i + 1] = Row(time_stepping(gcm, dt, Vals(ret[1][i])))
        /\ \A i \in 1..(nt + 1) : ret[2][i] = (i - 1) * dt
        /\ \A i \in 1..(nt + 1) : ~RowUnset(ret[1][i])

C1_Witness ==
    /\ pc = "returned" /\ driver = "GCM_network" /\ gcm.time_stepping = "RK4"
    /\ nt >= 2 /\ dt # 0 /\ Len(X0) >= 3
    /\ ret[1][3] # ret[1][2]

(* C2 as stated: GCM returns nt+1 samples, the first being X0 at time 0.    *)
C2_Original ==
    (pc = "returned" /\ driver = "GCM") =>
        /\ Len(ret[1]) = nt + 1
        /\ Len(ret[2]) = nt + 1
        /\ ret[1][1] = Row(X0)
        /\ ret[2][1] = 0

(* What GCM returns instead: nt samples without the initial condition; when *)
(* the first step does not diverge the first sample is the state after one  *)
(* step from X0, at time dt.                                                *)
C2_GCMRecordLength ==
    (pc = "returned" /\ driver = "GCM") =>
        /\ Len(ret[1]) = nt
        /\ Len(ret[2]) = nt
        /\ (nt >= 1 /\ ~Diverged(EulerOrbit(X0, F, dt, param, 1))) =>
              /\ ret[1][1] = Row(EulerUpdate(X0, F, dt, param))
              /\ ret[2][1] = dt

(* C3: when the state computed at step n exceeds 1e3 the run stops there:   *)
(* that state is never written, rows n.. keep NaN, and rows 0..n-1 hold the *)
(* states computed at steps 0..n-1.                                         *)
C3_DivergenceLeavesUnset ==
    (driver = "GCM" /\ pc \in {"break", "returned"} /\ Len(X0) >= 1) =>
        LET orbit == EulerOrbit(X0, F, dt, param, nt)
            m == Len(orbit)
        IN  Diverged(orbit) =>
              /\ \A i \in m..nt : hist[i] = [k \in 1..Len(X0) |-> NaN]
              /\ \A i \in 1..(m - 1) : hist[i] = Row(orbit[i])
              /\ \A i \in 1..nt : hist[i] # Row(orbit[m])
              /\ n = m - 1

C3_Witness ==
    /\ driver = "GCM" /\ pc = "returned" /\ n >= 1 /\ n + 1 < nt
    /\ ~RowUnset(hist[n]) /\ RowUnset(hist[n + 1]) /\ RowUnset(hist[nt])
    /\ MaxAbs(X) > 1000

(* C4 as stated: the class drivers stop at a stepped state that exceeds the *)
(* threshold and never store it.                                            *)
C4_ClassGuard ==
    (driver \in ClassDrivers /\ Len(X0) >= 1) =>
        \A i \in 2..Len(hist) :
            ~RowUnset(hist[i]) => MaxAbs(Vals(hist[i])) <= 1000

(* C5 as stated: the returned time sequence of GCM has spacing dt between   *)
(* every pair of adjacent entries, truncated runs included.                 *)
C5_FixedSpacing ==
    (pc = "returned" /\ driver = "GCM" /\ dt > 0) =>
        \A i \in 1..(Len(ret[2]) - 1) : ret[2][i + 1] - ret[2][i] = dt

(* C6: GCM never raises on divergence; in the returned hist the first unset *)
(* row is exactly the step that blew up, and no row is unset exactly when   *)
(* all nt steps completed.                                                  *)
C6_DivergenceReported ==
    (driver = "GCM" /\ Len(X0) >= 1) =>
        /\ pc # "raised"
        /\ pc = "returned" =>
              LET orbit == EulerOrbit(X0, F, dt, param, nt)
                  unset == {i \in 1..nt : RowUnset(ret[1][i])}
              IN  /\ Diverged(orbit) <=> unset # {}
                  /\ Diverged(orbit) =>
                        \A i \in 1..nt : (i \in unset <=> i >= Len(orbit))
                  /\ ~Diverged(orbit) => Len(orbit) = nt

C6_Witness ==
    /\ pc = "returned" /\ driver = "GCM" /\ nt >= 2 /\ n = nt - 1
    /\ err = NoError
    /\ RowUnset(ret[1][nt]) /\ ~RowUnset(ret[1][nt - 1])

(* C7 as stated: a run with dt <= 0, an empty X0 or a closure that does not *)
(* fit K evaluates no tendency and returns nothing.                         *)
InvalidConfiguration ==
    \/ dt <= 0
    \/ Len(X0) < 1
    \/ driver = "GCM_network" /\ Network_shape_error(gcm.network, X0)

C7_RejectsInvalid ==
    (driver # "none" /\ InvalidConfiguration) =>
        (evals = 0 /\ pc # "returned")

(* C8: a closure error leaves GCM_network.__call__ as raised: the error is  *)
(* the closure's own, nothing is returned, the failing step writes nothing, *)
(* and no evaluation is repeated (every completed step made exactly         *)
(* Stages evaluations).                                                     *)
C8_ClosureErrorPropagates ==
    driver = "GCM_network" =>
        LET q == Stages(gcm.time_stepping)
        IN  /\ pc \in {"loop", "returned"} => (err = NoError /\ evals = q * n)
            /\ pc = "raised" =>
                  /\ err = Network_error(gcm.network, X)
                  /\ ret = NoReturn
                  /\ evals - q * n \in 1..q
                  /\ \A i \in (n + 2)..(nt + 1) :
                        hist[i] = [k \in 1..Len(X0) |-> NaN]

C8_Witness ==
    /\ pc = "raised" /\ driver = "GCM_network" /\ gcm.time_stepping = "RK4"
    /\ n >= 1 /\ evals = 4 * n + 3 /\ err = "ClosureError"

\* the network returns, for every x, the correction c that polynomial p returns
SameCorrection(net, p) ==
    /\ net.in_features = 1
    /\ \A x \in -3..3 : net.w * x + net.b = PolyvalFrom(p, x, 1, 0)

\* the network returns, for every x, minus what polynomial p returns
OppositeCorrection(net, p) ==
    /\ net.in_features = 1
    /\ \A x \in -3..3 : net.w * x + net.b = -PolyvalFrom(p, x, 1, 0)

(* C9 as stated: closures returning the same correction give GCM and        *)
(* GCM_network the same tendency.                                           *)
C9_Original ==
    (driver = "GCM_network" /\ pc = "loop") =>
        \A p \in Params :
            SameCorrection(gcm.network, p) =>
                GCM_network_rhs(gcm, X) = GCM_tendency(X, gcm.F, p)

(* C9 amended: GCM uses T(X,F) - P(X) and GCM_network uses T(X,F) + N(X);   *)
(* they compute the same tendency, and under Euler stepping the same        *)
(* states, when N(X) = -P(X) for every X.                                   *)
C9_OppositeSignClosures ==
    (driver = "GCM_network" /\ Len(X0) >= 1) =>
        \A p \in Params :
            OppositeCorrection(gcm.network, p) =>
                /\ pc = "loop" =>
                      GCM_network_rhs(gcm, X) = GCM_tendency(X, gcm.F, p)
                /\ (pc = "returned" /\ gcm.time_stepping = "EulerFwd") =>
                      LET g == GCM(X0, gcm.F, dt, nt, p)
                      IN  \A i \in 1..nt :
                              ~RowUnset(g.hist[i]) => g.hist[i] = ret[1][i + 1]

C9_Witness ==
    /\ driver = "GCM_network" /\ pc = "returned" /\ gcm.time_stepping = "EulerFwd"
    /\ OppositeCorrection(gcm.network, <<-1, -1>>)
    /\ nt >= 2 /\ dt # 0 /\ Len(X0) = 4
    /\ ret[1][3] # ret[1][2]
    /\ ~RowUnset(GCM(X0, gcm.F, dt, nt, <<-1, -1>>).hist[2])

(* C10: every step of GCM is one Euler update S + dt*(T(S,F) - P(S)) with   *)
(* one tendency evaluation, and every recorded row holds that value.        *)
C10_EulerStep ==
    driver = "GCM" =>
        /\ \A i \in 1..Len(hist) :
              ~RowUnset(hist[i]) =>
                  hist[i] = Row(EulerUpdate(IF i = 1 THEN X0 ELSE Vals(hist[i - 1]),
                                            F, dt, param))
        /\ (pc = "loop" /\ n >= 1) => X = Vals(hist[n])
        /\ pc = "loop" => evals = n
        /\ pc \in {"break", "raised"} => evals = n + 1
        /\ pc = "returned" => evals = IF n < nt THEN n + 1 ELSE n

C10_Witness ==
    /\ driver = "GCM" /\ pc = "loop" /\ n >= 2 /\ evals = n
    /\ param = <<1, 0, 0>> /\ dt # 0 /\ Len(X0) = 4
    /\ hist[2] # hist[1]

(* C11: for K >= 4, entry k (0-based) of the slow tendency with correction *)
(* U is -X[(k-1) mod K]*(X[(k-2) mod K] - X[(k+1) mod K]) - X[k] + F - U[k],*)
(* the wrap-around entries k = 0, 1, K-1 included; rotating X (and with it *)
(* U) by s positions rotates the tendency by s positions. U is P(X) in GCM, *)
(* 0 in GCM_without_parameterization and -N(X) in GCM_network.              *)
\* element k of V for the 0-based index k of the equations
At0(V, k) == V[(k % Len(V)) + 1]

SlowEntry(V, f, U, k) ==
    -At0(V, k - 1) * (At0(V, k - 2) - At0(V, k + 1)) - At0(V, k) + f - At0(U, k)

\* V rotated cyclically by s positions
Rotate(V, s) == Array([k \in 1..Len(V) |-> At0(V, k - 1 - s)])

Negated(V) == Array([k \in 1..Len(V) |-> -V[k]])

C11_CyclicSlowTendency ==
    (pc = "loop" /\ Len(X) >= 4) =>
        LET K == Len(X)
        IN  /\ driver = "GCM" =>
                  LET T == GCM_tendency(X, F, param)
                      U == polyval(param, X)
                  IN  /\ \A k \in 0..(K - 1) : T[k + 1] = SlowEntry(X, F, U, k)
                      /\ \A s \in 0..(K - 1) :
                            GCM_tendency(Rotate(X, s), F, param) = Rotate(T, s)
            /\ (driver \in ClassDrivers /\ ~Network_shape_error(gcm.network, X)) =>
                  LET T == rhs(gcm, X)
                      U == IF driver = "GCM_network"
                           THEN Negated(Network_forward(gcm.network, X))
                           ELSE [k \in 1..K |-> 0]
                  IN  /\ \A k \in 0..(K - 1) : T[k + 1] = SlowEntry(X, gcm.F, U, k)
                      /\ \A s \in 0..(K - 1) :
                            rhs(gcm, Rotate(X, s)) = Rotate(T, s)

C11_Witness ==
    /\ pc = "loop" /\ driver = "GCM" /\ Len(X) = 5 /\ n >= 1
    /\ param = <<1, 1>>
    /\ X[1] # X[5] /\ X[1] # X[2] /\ X[4] # X[5]
    /\ LET T == GCM_tendency(X, F, param)
       IN  T[1] # T[2] /\ T[1] # T[5] /\ Rotate(T, 1) # T

(* C12: with the default param [0] the correction is zero for every k, and *)
(* GCM computes, state by state, what Euler stepping of the uncoupled slow  *)
(* tendency (GCM_without_parameterization with EulerFwd) computes from the  *)
(* same state, at the same times.                                           *)
UncoupledEuler(f) ==
    [cls |-> "GCM_without_parameterization", F |-> f,
     network |-> NoNetwork, time_stepping |-> "EulerFwd"]

C12_ZeroCoupling ==
    (driver = "GCM" /\ param = <<0>> /\ Len(X0) >= 1) =>
        LET self == UncoupledEuler(F)
        IN  /\ pc = "loop" =>
                  /\ polyval(param, X) = [k \in 1..Len(X) |-> 0]
                  /\ GCM_tendency(X, F, param) = rhs(self, X)
            /\ pc = "returned" =>
                  \A i \in 1..nt :
                      ~RowUnset(ret[1][i]) =>
                          LET prev == IF i = 1 THEN X0 ELSE Vals(ret[1][i - 1])
                              s == GCM_without_parameterization_body(
                                       self, prev, dt, i - 1,
                                       NanArray(nt + 1, Len(X0)), Arange(dt, nt + 1))
                          IN  /\ ret[1][i] = s.hist[i + 1]
                              /\ ret[2][i] = s.time[i + 1]

C12_Witness ==
    /\ driver = "GCM" /\ pc = "returned" /\ param = <<0>>
    /\ nt >= 2 /\ dt # 0 /\ Len(X0) >= 4
    /\ ~RowUnset(ret[1][2]) /\ ret[1][2] # ret[1][1] /\ ret[1][1] # Row(X0)

(* C15: a run never modifies a state already produced: no step of GCM or   *)
(* of the class drivers changes the caller's X0, and a row of hist, once    *)
(* written, is never changed by a later step or by the return.              *)
C15_ProducedStatesKept ==
    [][ (pc \in {"loop", "break"} /\ driver' = driver) =>
            /\ X0' = X0
            /\ Len(hist') = Len(hist)
            /\ \A i \in 1..Len(hist) :
                  ~RowUnset(hist[i]) => hist'[i] = hist[i] ]_vars

C15_Witness ==
    /\ pc = "returned" /\ driver = "GCM_network" /\ nt >= 3 /\ dt # 0
    /\ Len(X0) >= 4
    /\ X # X0 /\ hist[1] = Row(X0)
    /\ hist[2] # hist[1] /\ hist[3] # hist[2] /\ hist[4] # hist[3]

(* C16: a run leaves the configuration unchanged: the forcing, the step    *)
(* scheme, the closure (network or polynomial coefficients) and the shared  *)
(* default list param=[0] have the same values after every step and after  *)
(* the return as before the call.                                           *)
C16_ConfigurationKept ==
    /\ [](param_default = <<0>>)
    /\ [](driver \in ClassDrivers => F = gcm.F)
    /\ [][ (pc \in {"loop", "break"} /\ driver' = driver) =>
              /\ gcm' = gcm
              /\ F' = F
              /\ param' = param
              /\ param_default' = param_default ]_vars

C16_Witness ==
    /\ pc = "returned" /\ driver = "GCM_network" /\ nt >= 2 /\ dt # 0
    /\ defaulted /\ param = <<0>> /\ param_default = <<0>>
    /\ gcm.F = 1 /\ gcm.network.w = 1 /\ gcm.time_stepping = "RK4"
    /\ hist[3] # hist[2]

(* C19: one RK4 step evaluates the tendency four times (k1 at the state,   *)
(* k2 and k3 at half-step points, k4 at the full-step point) and returns    *)
(* state + dt*(k1 + 2*k2 + 2*k3 + k4)/6; a class-driver run of nt RK4 steps *)
(* calls rhs exactly 4*nt times.                                            *)
\* S + c*D, elementwise, for a step fraction c = num/den
AddScaled(S, num, den, D) ==
    Array([k \in 1..Len(S) |-> S[k] + (num * D[k]) \div den])

RK4Formula(self, d, S) ==
    LET k1 == rhs(self, S)
        k2 == rhs(self, AddScaled(S, d, 2, k1))
        k3 == rhs(self, AddScaled(S, d, 2, k2))
        k4 == rhs(self, AddScaled(S, d, 1, k3))
    IN  Array([k \in 1..Len(S) |->
            S[k] + (d * (k1[k] + 2 * k2[k] + 2 * k3[k] + k4[k])) \div 6])

C19_RK4FourEvaluations ==
    (driver \in ClassDrivers /\ gcm.time_stepping = "RK4") =>
        /\ Stages(gcm.time_stepping) = 4
        /\ pc = "loop" => evals = 4 * n
        /\ pc = "returned" =>
              /\ evals = 4 * nt
              /\ \A i \in 1..nt :
                    ret[1][i + 1] = Row(RK4Formula(gcm, dt, Vals(ret[1][i])))

C19_Witness ==
    /\ pc = "returned" /\ driver = "GCM_without_parameterization"
    /\ gcm.time_stepping = "RK4" /\ nt >= 2 /\ dt = 6 /\ evals = 4 * nt
    /\ ret[1][3] # ret[1][2] /\ ret[1][2] # ret[1][1]

(* C13: whenever the cell binds U_sample, from the Y of the latest run and  *)
(* the W bound then, U_sample[n][k] = (h*c/b) * (Y[n][k*J] + ... +          *)
(* Y[n][k*J + J-1]) for every time sample n and every k in 0..K-1: the fast *)
(* vector is split into                                                     *)
(* K consecutive groups of J, U has length K, it is the coupling term of    *)
(* the two-time-scale tendency, and every fast value contributes to exactly *)
(* one U[k].                                                                *)
RECURSIVE GroupTotal(_, _, _, _)
GroupTotal(row, k, J, j) ==
    IF j = J THEN 0 ELSE row[k * J + j + 1].val + GroupTotal(row, k, J, j + 1)

\* the row with fast value m raised by one
Raised(row, m) == [row EXCEPT ![m] = Num(row[m].val + 1)]

C13_CouplingSamples ==
    [][(U_sample' # U_sample) =>
        LET Y == truth.ret[2]
            U == U_sample'
            K == W.K
            J == W.J
            f == (W.h * W.c) \div W.b
        IN  /\ Len(U) = Len(Y)
            /\ \A i \in 1..Len(Y) :
                  /\ Len(U[i]) = K
                  /\ RowUnset(Y[i]) => \A k \in 1..K : U[i][k] = NaN
                  /\ ~RowUnset(Y[i]) =>
                        /\ \A k \in 0..(K - 1) :
                              U[i][k + 1] = Num(f * GroupTotal(Y[i], k, J, 0))
                        /\ U[i] = Row(Coupling(W, Vals(Y[i])))
                        /\ \A m \in 1..(K * J) :
                              LET U2 == U_sample_of(<<Raised(Y[i], m)>>,
                                                    W.h, W.c, W.b, K, J)[1]
                              IN  \A k \in 1..K :
                                      U2[k].val - U[i][k].val =
                                          IF k = ((m - 1) \div J) + 1 THEN f ELSE 0]_vars

\* U_sample of the second run on the same object, which started from the
\* state the first run stored
C13_Witness ==
    /\ U_sample # <<>> /\ W.K = 2 /\ W.J = 3 /\ W.h = 2
    /\ truth.pc = "returned" /\ truth.k = 2 /\ truth.self.t # 0
    /\ truth.nt >= 2 /\ Len(U_sample) = truth.nt + 1
    /\ ~RowUnset(truth.ret[2][3])
    /\ truth.ret[2][3] # truth.ret[2][2]
    /\ U_sample[3][1] # U_sample[3][2] /\ U_sample[3] # U_sample[2]
    /\ U_sample[3][1] = Num(2 * GroupTotal(truth.ret[2][3], 0, 3, 0))
    /\ truth.ret[2][3][3] # truth.ret[2][3][4]

(* C17: two GCM runs with the same seed, the same F, dt, nt and the same   *)
(* closure return the same hist and the same time, entry for entry, whatever *)
(* other runs, reseedings and draws from np.random happened in between.      *)
C17_Reproducible ==
    (pc = "returned" /\ driver = "GCM" /\ memo # NoReturn
        /\ memo.args = RunArguments) =>
            /\ ret[1] = memo.ret[1]
            /\ ret[2] = memo.ret[2]

C17_Witness ==
    /\ pc = "returned" /\ driver = "GCM" /\ memo # NoReturn
    /\ memo.args = RunArguments
    /\ nt >= 2 /\ dt # 0 /\ param = <<1, 1>>
    /\ np_random.draws > SeededCellDraws(W)
    /\ ~RowUnset(ret[1][2]) /\ ret[1][2] # ret[1][1]

(* C18: two runs that share one driver object (forcing, scheme, closure)   *)
(* and whose iterations are interleaved in any order each return the        *)
(* trajectory the run returns when it is executed alone.                    *)
\* gcm(x0, d, m) executed alone, when the closure does not raise
RECURSIVE AloneFrom(_, _, _, _, _, _, _)
AloneFrom(self, V, d, i, m, h, t) ==
    IF i = m THEN <<h, t>>
    ELSE LET s == GCM_network_body(self, V, d, i, h, t, 0)
         IN  AloneFrom(self, s.X, d, i + 1, m, s.hist, s.time)

Alone(self, x0, d, m) ==
    LET e == Class_entry(x0, d, m)
    IN  AloneFrom(self, e.X, d, 0, m, e.hist, e.time)

C18_InterleavedRunsIndependent ==
    /\ (pc = "returned" /\ driver = "GCM_network") =>
            ret = Alone(gcm, X0, dt, nt)
    /\ (other.pc = "returned") =>
            other.ret = Alone(gcm, other.X0, other.dt, other.nt)

C18_Witness ==
    /\ pc = "returned" /\ driver = "GCM_network" /\ other.pc = "returned"
    /\ nt >= 2 /\ other.nt >= 2 /\ dt # 0 /\ other.dt # 0
    /\ X0 # other.X0
    /\ gcm.network.w = 1
    /\ ret[1][3] # ret[1][2] /\ other.ret[1][3] # other.ret[1][2]
    /\ ret # other.ret

(* C21: on a linear test equation with a closed-form solution, integrated   *)
(* over a fixed interval, the endpoint error is proportional to dt for      *)
(* Euler, to dt^2 for RK2 and to dt^4 for RK4: halving dt divides it by 2,  *)
(* 4 and 16. The test equation is x' = A x with A the shift matrix on m     *)
(* components (solution polynomial in t); a scheme of order p is exact for  *)
(* m <= p+1, and for m = p+2 its error is a non-zero multiple of dt^p.      *)
SchemeOrder(scheme) ==
    IF scheme = "RK4" THEN 4 ELSE IF scheme = "RK2" THEN 2 ELSE 1

\* the state after `left` steps of the scheme from V
RECURSIVE ChainEndpoint(_, _, _, _, _)
ChainEndpoint(scheme, variant, d, V, left) ==
    IF left = 0 THEN V
    ELSE ChainEndpoint(scheme, variant, d, Chain_step(scheme, variant, d, V), left - 1)

\* largest absolute difference between two vectors of the same length
MaxError(V, Z) == MaxAbs([k \in 1..Len(V) |-> V[k] - Z[k]])

\* endpoint error of the scheme run from x0 with time increment d
EndpointError(scheme, variant, x0, d) ==
    MaxError(ChainEndpoint(scheme, variant, d, x0, OrderT \div d),
             Chain_exact(x0, OrderT))

C21_SchemeOrder ==
    (ode # NoObject /\ ode.pc = "returned") =>
        LET p == SchemeOrder(ode.scheme)
            m == Len(ode.X0)
            e == MaxError(ode.X, Chain_exact(ode.X0, OrderT))
        IN  /\ m <= p + 1 => e = 0
            /\ m = p + 2 =>
                  /\ e # 0
                  /\ e % Power(ode.dt, p) = 0
                  /\ \A d2 \in OrderDts :
                        LET e2 == EndpointError(ode.scheme, ode.variant, ode.X0, d2)
                        IN  /\ e2 % Power(d2, p) = 0
                            /\ e2 \div Power(d2, p) = e \div Power(ode.dt, p)
                            /\ 2 * d2 = ode.dt => e = Power(2, p) * e2

C21_Witness ==
    /\ ode # NoObject /\ ode.pc = "returned" /\ ode.scheme = "RK4"
    /\ Len(ode.X0) = 6 /\ ode.dt = 12 /\ ode.n = 2
    /\ MaxError(ode.X, Chain_exact(ode.X0, OrderT))
          = 16 * EndpointError("RK4", "midpoint", ode.X0, 6)
    /\ MaxError(ode.X, Chain_exact(ode.X0, OrderT)) > 0

(* C22: every run ends. GCM makes at most nt steps: exactly nt when no      *)
(* computed state exceeds the threshold, otherwise it stops at the first     *)
(* step whose state exceeds it, and nothing is evaluated or written after   *)
(* that. A class driver has no early exit: a run that returns made exactly  *)
(* nt steps, and only an error raised by the closure ends one earlier.      *)
C22_RunsTerminate ==
    /\ [](n <= nt /\ (driver = "GCM" => evals <= nt))
    /\ []((driver = "GCM" /\ pc = "returned" /\ Len(X0) >= 1) =>
            LET orbit == EulerOrbit(X0, F, dt, param, nt)
            IN  /\ evals = Len(orbit)
                /\ ~Diverged(orbit) => (n = nt /\ evals = nt)
                /\ Diverged(orbit) =>
                      (n = Len(orbit) - 1 /\ X = orbit[Len(orbit)]))
    /\ [](driver \in ClassDrivers =>
            /\ pc # "break"
            /\ pc = "returned" =>
                  (n = nt /\ evals = Stages(gcm.time_stepping) * nt)
            /\ pc = "raised" =>
                  (driver = "GCM_network" /\ err = Network_error(gcm.network, X)))
    /\ [][ (pc \in {"break", "returned", "raised"} /\ driver' = driver) =>
              (evals' = evals /\ hist' = hist /\ time' = time /\ X' = X) ]_vars
    /\ (pc \in {"loop", "break"}) ~> (pc \in {"returned", "raised"})

C22_Witness ==
    /\ pc = "returned" /\ driver = "GCM" /\ nt = 3 /\ n = 1 /\ evals = 2
    /\ MaxAbs(X) > 1000 /\ ~RowUnset(hist[1]) /\ RowUnset(hist[2])
    /\ Len(X0) = 3

(* C23: at every point of a GCM run the set rows of hist are the first n    *)
(* rows, a row is set in all its cells or in none, and every set row has    *)
(* all components of absolute value <= 1e3; the guard is strict: a state    *)
(* whose largest absolute component is exactly 1e3 is recorded and the run  *)
(* goes on.                                                                 *)
C23_SetRowsPrefix ==
    (driver = "GCM" /\ Len(X0) >= 1) =>
        /\ Len(hist) = nt
        /\ \A i \in 1..nt :
              /\ RowUnset(hist[i]) <=> i > n
              /\ RowUnset(hist[i]) => hist[i] = [k \in 1..Len(X0) |-> NaN]
              /\ ~RowUnset(hist[i]) => MaxAbs(Vals(hist[i])) <= 1000
        /\ (evals >= 1 /\ MaxAbs(X) <= 1000) =>
              /\ pc \in {"loop", "returned"}
              /\ n = evals
              /\ hist[n] = Row(X)
              /\ pc = "returned" => n = nt

C23_Witness ==
    /\ driver = "GCM" /\ pc = "loop" /\ n = 2 /\ nt = 3 /\ Len(X0) = 4
    /\ MaxAbs(Vals(hist[1])) = 1000 /\ hist[1] # Row(X0)
    /\ ~RowUnset(hist[2]) /\ RowUnset(hist[3])

(* C24: the trajectory a class driver returns does not depend on the param  *)
(* argument: two runs of the same driver object from the same X0, dt and nt  *)
(* that differ only in param return the same hist and the same time.        *)
C24_ParamIgnored ==
    (pc = "returned" /\ driver \in ClassDrivers /\ memo # NoReturn
        /\ memo.args = ClassArguments) =>
            /\ ret[1] = memo.ret[1]
            /\ ret[2] = memo.ret[2]

C24_Witness ==
    /\ pc = "returned" /\ driver = "GCM_network" /\ memo # NoReturn
    /\ memo.args = ClassArguments
    /\ memo.param = AsParam(gcm.network) /\ param = <<0>> /\ memo.param # param
    /\ gcm.time_stepping = "RK4" /\ nt >= 2 /\ dt # 0
    /\ ret[1][3] # ret[1][2] /\ ret[1][2] # ret[1][1]

(* C25: in GCM_network.rhs a network with one input feature is applied to   *)
(* each slow variable as a sample of its own: the correction has length K,   *)
(* its k-th entry is the layer's output on X[k] alone, and replacing X[m],   *)
(* m # k, leaves it unchanged. A network with more input features receives   *)
(* the whole slow vector as one sample, and the layer's output vector on     *)
(* that sample is the length-K correction the step adds to the tendency.     *)
\* the batch rhs hands to the network: unsqueeze(X, 1) or expand_dims(X, 0)
Samples(net, V) ==
    IF net.in_features = 1
    THEN Array([k \in 1..Len(V) |-> <<V[k]>>])
    ELSE << V >>

\* the linear layer on one sample of the batch
Layer(net, s) ==
    Array([j \in 1..Len(s) |->
              net.w * s[j] + net.v * s[(j % Len(s)) + 1] + net.b])

\* np.squeeze of the batch of outputs
Squeeze(out) ==
    IF Len(out) = 1 THEN out[1]
    ELSE Array([k \in 1..Len(out) |-> out[k][1]])

\* what rhs adds to the tendency L96_eq1_xdot at V
Correction(self, V) ==
    LET r == rhs(self, V)
        xdot == L96_eq1_xdot(V, self.F)
    IN  Array([k \in 1..Len(V) |-> r[k] - xdot[k]])

\* replacement values of one entry, tried on states small enough for the
\* products of the advection term
AlterValues == {-1, 0, 5}
AlterLimit == 1000

C25_NetworkSamples ==
    (driver = "GCM_network" /\ pc \in {"loop", "returned"} /\ Len(X) >= 1
        /\ ~Network_shape_error(gcm.network, X)) =>
        LET net == gcm.network
            c == Correction(gcm, X)
            batch == Samples(net, X)
        IN  /\ Len(c) = Len(X)
            /\ c = Squeeze(Array([i \in 1..Len(batch) |-> Layer(net, batch[i])]))
            /\ (net.in_features = 1) =>
                   /\ Len(batch) = Len(X)
                   /\ \A k \in 1..Len(X) :
                         /\ c[k] = net.w * X[k] + net.b
                         /\ (MaxAbs(X) <= AlterLimit) =>
                               \A m \in (1..Len(X)) \ {k}, v \in AlterValues :
                                  Correction(gcm, [X EXCEPT ![m] = v])[k] = c[k]
            /\ (net.in_features # 1) =>
                   /\ Len(batch) = 1 /\ batch[1] = X
                   /\ Len(X) = net.in_features
            /\ (gcm.time_stepping = "EulerFwd" /\ n >= 1) =>
                   LET P == Vals(hist[n])
                       xdot == L96_eq1_xdot(P, gcm.F)
                       out == Squeeze(Array([i \in 1..Len(Samples(net, P)) |->
                                                Layer(net, Samples(net, P)[i])]))
                   IN  \A k \in 1..Len(X) :
                          X[k] = P[k] + dt * (xdot[k] + out[k])

C25_Witness ==
    /\ driver = "GCM_network" /\ pc = "loop" /\ n = 2 /\ dt = 1
    /\ gcm.time_stepping = "EulerFwd"
    /\ gcm.network.in_features = 1 /\ gcm.network.w = 1 /\ gcm.network.b = 1
    /\ Len(X) = 4
    /\ \E k, m \in 1..Len(X) : Correction(gcm, X)[k] # Correction(gcm, X)[m]

\* the whole-vector case of C25 happens: the correction of one entry changes
\* with another entry of the slow vector
C25_WholeVectorReached ==
    /\ driver = "GCM_network" /\ pc = "loop" /\ n >= 1
    /\ gcm.network.in_features = 3 /\ Len(X) = 3
    /\ Correction(gcm, [X EXCEPT ![2] = X[2] + 1])[1] # Correction(gcm, X)[1]

(* C26: stepping composes. For the class drivers, rows a.. of a returned run  *)
(* of nt steps are the rows of a run of nt - a steps started from row a      *)
(* (row a + m of the long run is row m of the second run, m in 0..nt-a);     *)
(* for GCM without divergence, the state stored after step a + m is the      *)
(* state a second call started from the state after step a stores after its  *)
(* step m.                                                                   *)
C26_SteppingComposes ==
    /\ (pc = "returned" /\ driver \in ClassDrivers) =>
           \A a \in 0..nt :
              LET second == Alone(gcm, Vals(ret[1][a + 1]), dt, nt - a)[1]
              IN  /\ Len(second) = nt - a + 1
                  /\ \A m \in 0..(nt - a) : ret[1][a + m + 1] = second[m + 1]
    /\ (pc = "returned" /\ driver = "GCM" /\ n = nt /\ Len(X0) >= 1) =>
           \A a \in 1..nt :
              LET second == GCM(Vals(ret[1][a]), F, dt, nt - a, param).hist
              IN  /\ Len(second) = nt - a
                  /\ \A m \in 1..(nt - a) : ret[1][a + m] = second[m]

C26_Witness ==
    /\ pc = "returned" /\ driver = "GCM_network" /\ nt = 3 /\ dt # 0
    /\ gcm.time_stepping = "RK4" /\ gcm.network.w # 0
    /\ ret[1][2] # ret[1][1] /\ ret[1][3] # ret[1][2] /\ ret[1][4] # ret[1][3]
    /\ Alone(gcm, Vals(ret[1][2]), dt, 2)[1][3] = ret[1][4]
    /\ Alone(gcm, Vals(ret[1][2]), dt, 2)[1][1] # ret[1][1]

\* the GCM case of C26 happens: a run of three steps without divergence
C26_GCMReached ==
    /\ pc = "returned" /\ driver = "GCM" /\ n = 3 /\ nt = 3 /\ dt # 0
    /\ hist[1] # hist[2] /\ hist[2] # hist[3] /\ param # <<0>>
    /\ GCM(Vals(ret[1][1]), F, dt, 2, param).hist[2] = ret[1][3]

(* C27: in train_model every batch of the pass is handled in the order       *)
(* forward, loss, clear gradients, backward, optimizer step. The optimizer   *)
(* steps once per batch, so len(loader) times per epoch; at each step the    *)
(* gradient buffers hold the gradient of the current batch's loss alone,     *)
(* taken at the weights the batch started with; and the returned value is    *)
(* the mean over the batches of the losses computed at the weights before    *)
(* each adjustment.                                                          *)
\* the gradient of the mean squared error of the network on one batch
GradOf(network, batch) ==
    LET B == Len(batch.y)
        r == Array([k \in 1..B |->
                       network.w * batch.x[k] + network.b - 1000 * batch.y[k]])
    IN  [w |-> RoundDiv(2 * SumOf(Array([k \in 1..B |-> r[k] * batch.x[k]])), B),
         b |-> RoundDiv(2 * SumOf(r), B)]

\* the mean squared error of the network on one batch
LossOf(network, batch) == loss_fn(forward(network, batch.x), batch.y)

Weights(network) == [w |-> network.w, b |-> network.b]

\* the sum of the losses of batches j.. of the pass, each at the weights
\* its iteration started with
RECURSIVE LossesFrom(_, _, _, _)
LossesFrom(loader, order, before, j) ==
    IF j > Len(before) THEN 0
    ELSE LossOf(before[j], Batch(loader, order, j))
             + LossesFrom(loader, order, before, j + 1)

C27_TrainOrder ==
    /\ [](fit # NoObject =>
            LET NB == Loader_len(fit.train_loader)
            IN  /\ (fit.pc = "train") =>
                       /\ Len(fit.before) = fit.i /\ fit.i <= NB
                       /\ fit.steps = fit.epoch * NB + fit.i
                       /\ fit.train_loss =
                             LossesFrom(fit.train_loader, fit.order, fit.before, 1)
                /\ (fit.pc \in {"trained", "test"}) =>
                       /\ Len(fit.before) = NB
                       /\ fit.steps = (fit.epoch + 1) * NB
                /\ (fit.pc = "trained") =>
                       LET total == LossesFrom(fit.train_loader, fit.order,
                                               fit.before, 1)
                       IN  fit.train_loss = RoundDiv(total, NB)
                /\ (fit.pc \in {"epoch", "returned"}) =>
                       fit.steps = fit.epoch * NB)
    /\ [][(fit # NoObject /\ fit' # NoObject) =>
            /\ (fit'.steps # fit.steps) =>
                   LET batch == Batch(fit.train_loader, fit.order, fit.i + 1)
                       g == GradOf(fit.network, batch)
                   IN  /\ fit.pc = "train" /\ fit'.pc = "train"
                       /\ fit'.steps = fit.steps + 1 /\ fit'.i = fit.i + 1
                       /\ fit'.grad = g
                       /\ fit'.network = optimizer_step(fit.optimizer, fit.network, g).network
                       /\ fit'.optimizer = optimizer_step(fit.optimizer, fit.network, g).optimizer
                       /\ fit'.train_loss =
                             fit.train_loss + LossOf(fit.network, batch)
            /\ (Weights(fit'.network) # Weights(fit.network)) =>
                   fit'.steps = fit.steps + 1
           ]_vars

C27_Witness ==
    /\ fit # NoObject /\ fit.pc = "trained" /\ fit.epoch = 1
    /\ Len(fit.train_loader.dataset) = 3 /\ fit.train_loader.batch_size = 2
    /\ fit.steps = 4 /\ fit.optimizer.step = 5
    /\ fit.before[1] # fit.before[2] /\ Weights(fit.network) # fit.before[2]
    /\ fit.train_loss > 0
    /\ fit.grad # [w |-> 0, b |-> 0]

(* C28: test_model does not update the network: from its entry to its return *)
(* the weights, the gradient buffers and the optimizer stay as they were.    *)
(* Within fit_model the weights change only in iterations of train_model,    *)
(* and in each of the n_epochs epochs train_model has handled all of its     *)
(* batches and returned before test_model starts.                            *)
C28_TestKeepsWeights ==
    /\ [](fit # NoObject =>
            /\ fit.epoch <= fit.n_epochs
            /\ Len(fit.train_losses) = fit.epoch /\ Len(fit.test_losses) = fit.epoch
            /\ (fit.pc = "returned") => fit.epoch = fit.n_epochs
            /\ (fit.pc = "test") => ~fit.network.training
            /\ (fit.pc \in {"trained", "test"}) =>
                   /\ Len(fit.before) = Loader_len(fit.train_loader)
                   /\ fit.steps = (fit.epoch + 1) * Loader_len(fit.train_loader))
    /\ [][(fit # NoObject /\ fit' # NoObject) =>
            /\ (fit.pc \in {"trained", "test"}) =>
                   /\ Weights(fit'.network) = Weights(fit.network)
                   /\ fit'.grad = fit.grad
                   /\ fit'.optimizer = fit.optimizer
                   /\ fit'.steps = fit.steps
            /\ (Weights(fit'.network) # Weights(fit.network)) =>
                   fit.pc = "train" /\ fit'.pc = "train"
            /\ (fit'.pc = "trained" /\ fit.pc # "trained") =>
                   fit.pc = "train" /\ fit.i = Loader_len(fit.train_loader)
            /\ (fit'.pc = "test" /\ fit.pc # "test") => fit.pc = "trained"
            /\ (fit'.epoch # fit.epoch) =>
                   /\ fit.pc = "test" /\ fit.i = Loader_len(fit.test_loader)
                   /\ fit'.epoch = fit.epoch + 1
           ]_vars

C28_Witness ==
    /\ fit # NoObject /\ fit.pc = "epoch" /\ fit.epoch = 2 /\ fit.n_epochs = 2
    /\ Len(fit.test_loader.dataset) = 3 /\ fit.test_loader.batch_size = 2
    /\ fit.steps >= 2 /\ ~fit.network.training
    /\ fit.grad # [w |-> 0, b |-> 0]
    /\ fit.test_losses[1] # fit.test_losses[2]
    /\ Weights(fit.network) # fit.before[1]

(* C29: the train/test split partitions the time samples in order. With N    *)
(* rows and 0 < val_size < N the training set is rows 0..N-val_size-1 and    *)
(* the test set rows N-val_size..N-1, in the order of the record; the two    *)
(* sets are disjoint and cover every row; and X_true and xy_true are split   *)
(* at the same index, so row i of an input set and row i of its tendency set *)
(* are the same row of the record.                                           *)
\* the row of the record that row i of the view A is
RowAt(A, i) == A.lo + i

\* the rows of the record the view A holds, which are consecutive
RowsOf(A) == A.lo..(A.hi - 1)

C29_SplitPartition ==
    (data # NoObject /\ data.pc # "record"
        /\ 0 < data.val_size /\ data.val_size < Shape0(data.X_true)) =>
        LET N == Shape0(data.X_true)
            v == data.val_size
        IN  /\ Shape0(data.X_true_train) = N - v /\ Shape0(data.X_true_test) = v
            /\ RowAt(data.X_true_train, 0) = 0
            /\ RowAt(data.X_true_train, N - v - 1) = N - v - 1
            /\ RowsOf(data.X_true_train) = 0..(N - v - 1)
            /\ RowAt(data.X_true_test, 0) = N - v
            /\ RowAt(data.X_true_test, v - 1) = N - 1
            /\ RowsOf(data.X_true_test) = (N - v)..(N - 1)
            /\ RowsOf(data.X_true_train) \cap RowsOf(data.X_true_test) = {}
            /\ RowsOf(data.X_true_train) \cup RowsOf(data.X_true_test) = 0..(N - 1)
            /\ data.X_true_train.base = data.X_true.base
            /\ data.X_true_test.base = data.X_true.base
            /\ data.subgrid_tend_train.base = data.xy_true.base
            /\ data.subgrid_tend_test.base = data.xy_true.base
            /\ data.X_true.base = <<"X_true", data.runs>>
            /\ data.xy_true.base = <<"xy_true", data.runs>>
            /\ Shape0(data.subgrid_tend_train) = Shape0(data.X_true_train)
            /\ Shape0(data.subgrid_tend_test) = Shape0(data.X_true_test)
            /\ RowAt(data.subgrid_tend_train, 0) = RowAt(data.X_true_train, 0)
            /\ RowsOf(data.subgrid_tend_train) = RowsOf(data.X_true_train)
            /\ RowAt(data.subgrid_tend_test, 0) = RowAt(data.X_true_test, 0)
            /\ RowsOf(data.subgrid_tend_test) = RowsOf(data.X_true_test)

\* the split of the record of a second run, while the loaders still hold
\* the sets split from the record of the first run
C29_Witness ==
    /\ data # NoObject /\ data.pc = "split" /\ data.runs = 2
    /\ data.time_steps = 5 /\ data.val_size = 2 /\ data.K = 2
    /\ RowsOf(data.X_true_train) = 0..3 /\ RowsOf(data.subgrid_tend_test) = {4, 5}
    /\ data.X_true_test.base = <<"X_true", 2>>
    /\ data.nlocal_loader_test.dataset.x.base = <<"X_true", 1>>
    /\ RowsOf(data.nlocal_loader_test.dataset.x) = {2, 3}

(* C30: with time_steps = 20000 (a record of time_steps + 1 samples of K = 8 *)
(* slow variables), val_size = 4000 and BATCH_SIZE = 2000, every pair of     *)
(* loaders the notebook builds yields 8 training batches and 2 test batches  *)
(* per epoch.                                                                *)
NotebookValues ==
    /\ data # NoObject
    /\ data.time_steps = time_steps /\ data.K = SlowVariables
    /\ data.val_size = val_size /\ data.BATCH_SIZE = BATCH_SIZE

C30_BatchCounts ==
    /\ (NotebookValues /\ data.pc \in {"local_test", "nonlocal"}) =>
           /\ Batches(data.local_loader) = 8
           /\ Batches(data.local_loader_test) = 2
    /\ (NotebookValues /\ data.pc = "nonlocal") =>
           /\ Batches(data.nlocal_loader_train) = 8
           /\ Batches(data.nlocal_loader_test) = 2

\* the batch counts of the notebook's values: the record has 20001 rows, so
\* the training sets have 16001 rows (128008 numbers) and a last batch of
\* one row (of eight numbers)
C30_CountsOfTheCode ==
    (NotebookValues /\ data.pc = "nonlocal") =>
        /\ Shape0(data.X_true) = 20001
        /\ Shape0(data.X_true_train) = 16001 /\ Shape0(data.X_true_test) = 4000
        /\ Batches(data.nlocal_loader_train) = 9
        /\ Batches(data.nlocal_loader_test) = 2
        /\ Batches(data.local_loader) = 65
        /\ Batches(data.local_loader_test) = 16

C30_NotebookReached == NotebookValues /\ data.pc = "nonlocal"

====
